---- MODULE Spec2Model ----
(***************************************************************************)
(* cluster-control: the resource-orchestration engine.                     *)
(*                                                                         *)
(*   - values, objects and the object heap (Python objects with a class    *)
(*     and an insertion-ordered __dict__);                                 *)
(*   - configurable.Var, resource.Ref, resource.Resource and the concrete  *)
(*     leaf resources aws_ec2.SecurityGroup, aws_ec2.PublicIp and          *)
(*     aws_lambda.Method;                                                  *)
(*   - formats.JSONWriter / formats.JSONReader (the graph codec);          *)
(*   - resource.Phase, resource.PersistInFile and the command-line run of  *)
(*     main.Controller: load the state file, elaborate, up or down.        *)
(***************************************************************************)
EXTENDS Integers, Sequences, FiniteSets, TLC

VARIABLES
    heap,       \* the process's objects: a sequence, object id = index
    root,       \* object id of the root resource (0: no process running)
    fs,         \* the file system: file name -> contents
    pc,         \* position of the running process
    phases,     \* stack of the Phases entered and not yet left
    ops,        \* the list the running default up/down iterates over
    idx,        \* loop index of the running elaborate/up/down loop
    exc,        \* exception in flight: "none", "external", "missing",
                \* "config", "recursion", "load", "killed"
    verb,       \* verb of the running process
    runs,       \* number of processes started so far
    world,      \* the cloud: resource name -> create calls accepted since
                \* the resource's last completed down
    hist,       \* observations of the current run
    sv          \* PersistInFile.save in progress (stepwise runs only)

vars == <<heap, root, fs, pc, phases, ops, idx, exc, verb, runs, world, hist, sv>>

----------------------------------------------------------------------------
(* Bounds *)

NRefs == 3          \* Reference fields declared by the aggregate root
MaxRuns == 2        \* command-line invocations per behaviour
WriteChunks == 2    \* pieces in which fp.write reaches the disk

----------------------------------------------------------------------------
(* Python values.  A string is a sequence of tokens, so that join and      *)
(* split are computed; None, lists, dicts and object pointers are tagged.  *)

NoneV == [t |-> "none"]
Str(toks) == [t |-> "str", s |-> toks]
Tok(a) == Str(<<a>>)
BoolV(b) == [t |-> "bool", b |-> b]
ListV(items) == [t |-> "list", items |-> items]
DictV(kv) == [t |-> "dict", kv |-> kv]
Ptr(o) == [t |-> "ptr", o |-> o]

IsNone(v) == v.t = "none"
IsPtr(v) == v.t = "ptr"

(* Insertion-ordered dict with string-token keys: a sequence of pairs. *)
HasKey(kv, k) == \E i \in 1..Len(kv) : kv[i].k = k
KeyIndex(kv, k) == CHOOSE i \in 1..Len(kv) : kv[i].k = k
Get(kv, k) == kv[KeyIndex(kv, k)].v
Put(kv, k, v) ==
    IF HasKey(kv, k)
    THEN [kv EXCEPT ![KeyIndex(kv, k)] = [k |-> k, v |-> v]]
    ELSE Append(kv, [k |-> k, v |-> v])
Keys(kv) == [i \in 1..Len(kv) |-> kv[i].k]

RECURSIVE Join(_, _)
Join(segs, sep) ==
    IF Len(segs) = 0 THEN <<>>
    ELSE IF Len(segs) = 1 THEN segs[1]
    ELSE segs[1] \o <<sep>> \o Join(Tail(segs), sep)

RECURSIVE SplitAcc(_, _, _, _)
SplitAcc(toks, sep, done, cur) ==
    IF Len(toks) = 0 THEN Append(done, cur)
    ELSE IF Head(toks) = sep
         THEN SplitAcc(Tail(toks), sep, Append(done, cur), <<>>)
         ELSE SplitAcc(Tail(toks), sep, done, Append(cur, Head(toks)))
Split(toks, sep) == SplitAcc(toks, sep, <<>>, <<>>)

Digits == <<"0", "1", "2", "3", "4", "5", "6", "7", "8", "9">>
Digit(n) == Digits[(n % 10) + 1]
IntStr(n) ==
    IF n < 10 THEN <<Digit(n)>>
    ELSE IF n < 100 THEN <<Digit(n \div 10), Digit(n)>>
    ELSE <<Digit(n \div 100), Digit(n \div 10), Digit(n)>>

----------------------------------------------------------------------------
(* The heap: objects with a class (module path and qualified name) and a   *)
(* __dict__.                                                               *)

Obj(cls, d) == [cls |-> cls, d |-> d]
Alloc(h, obj) == Append(h, obj)
hasattr(h, o, k) == HasKey(h[o].d, k)
getattr(h, o, k) == Get(h[o].d, k)
setattr(h, o, k, v) ==
    CHOOSE done \in {[x EXCEPT ![p].d = Put(x[p].d, k, v)] : x \in {h}, p \in {o}} : TRUE

VarClass == <<"cluster_control", "configurable", "Var">>
RefClass == <<"cluster_control", "resource", "Ref">>
AggregateClass == <<"cluster_control", "resource", "Aggregate">>
SecurityGroupClass == <<"cluster_control", "aws_ec2", "SecurityGroup">>
PublicIpClass == <<"cluster_control", "aws_ec2", "PublicIp">>
MethodClass == <<"cluster_control", "aws_lambda", "Method">>
ClusterClass == <<"cluster_control", "aws_ec2", "Cluster">>

(* path[1:] of a class's module and qualified name, as string segments. *)
ClassPath(cls) == [i \in 1..(Len(cls) - 1) |-> <<cls[i + 1]>>]

IsVar(h, v) == IsPtr(v) /\ h[v.o].cls = VarClass
IsRef(h, v) == IsPtr(v) /\ h[v.o].cls = RefClass
IsResource(h, v) == IsPtr(v) /\ h[v.o].cls \notin {VarClass, RefClass}

----------------------------------------------------------------------------
(* configurable.Var *)

(* Var.__init__: returns the heap and the new object's id. *)
NewVar(h, parent, name, default) ==
    CHOOSE new \in {
        [h |-> Alloc(x, Obj(VarClass, <<
                [k |-> "_parent", v |-> parent],
                [k |-> "_name", v |-> Tok(name)],
                [k |-> "_default", v |-> default],
                [k |-> "_selected", v |-> NoneV],
                [k |-> "_options", v |-> ListV(<<>>)] >>)),
         o |-> Len(x) + 1] : x \in {h}} : TRUE

Var_bool(h, v) == ~IsNone(getattr(h, v, "_selected"))

Var_bool_configure(h, v) ==
    IF IsNone(getattr(h, v, "_selected")) /\ ~IsNone(getattr(h, v, "_default"))
    THEN setattr(h, v, "_selected", getattr(h, v, "_default"))
    ELSE h

(* Var.__bool__: the heap afterwards (the method assigns nothing). *)
Var_bool_effect(h, v) == h

Var_call_unadopted(h, v) ==
    IF IsNone(getattr(h, v, "_selected"))
    THEN IF IsNone(getattr(h, v, "_default"))
         THEN [h |-> h, val |-> NoneV, err |-> TRUE]
         ELSE [h |-> h, val |-> getattr(h, v, "_default"), err |-> FALSE]
    ELSE [h |-> h, val |-> getattr(h, v, "_selected"), err |-> FALSE]

Var_call_default_first(h, v) ==
    IF ~IsNone(getattr(h, v, "_default"))
    THEN [h |-> setattr(h, v, "_selected", getattr(h, v, "_default")),
          val |-> getattr(h, v, "_default"), err |-> FALSE]
    ELSE IF IsNone(getattr(h, v, "_selected"))
    THEN [h |-> h, val |-> NoneV, err |-> TRUE]
    ELSE [h |-> h, val |-> getattr(h, v, "_selected"), err |-> FALSE]

(* Var.__call__: the heap after the read, the value, and whether it raised. *)
Var_call(h, v) ==
    IF IsNone(getattr(h, v, "_selected"))
    THEN IF IsNone(getattr(h, v, "_default"))
         THEN [h |-> h, val |-> NoneV, err |-> TRUE]
         ELSE [h |-> setattr(h, v, "_selected", getattr(h, v, "_default")),
               val |-> getattr(h, v, "_default"), err |-> FALSE]
    ELSE [h |-> h, val |-> getattr(h, v, "_selected"), err |-> FALSE]

Var_select(h, v, value) == setattr(h, v, "_selected", value)

Var_clear_noop(h, v) == h

Var_clear(h, v) == setattr(h, v, "_selected", NoneV)

Var_marshal == <<"_name", "_default", "_selected", "_options">>

----------------------------------------------------------------------------
(* resource.Ref *)

(* Resource.path: the name split at the dots, [] when the name is None. *)
Resource_path(h, r) ==
    IF IsNone(getattr(h, r, "name")) THEN <<>>
    ELSE Split(getattr(h, r, "name").s, ".")

PathValue(segs) == ListV([i \in 1..Len(segs) |-> Str(segs[i])])

(* Ref.__init__ *)
NewRef(h, parent, name) ==
    CHOOSE new \in {
        [h |-> Alloc(x, Obj(RefClass, <<
                [k |-> "_path", v |-> IF IsNone(parent) THEN ListV(<<>>)
                                      ELSE PathValue(Resource_path(x, parent.o))],
                [k |-> "_name", v |-> Tok(name)],
                [k |-> "_resource", v |-> NoneV],
                [k |-> "_owner", v |-> NoneV] >>)),
         o |-> Len(x) + 1] : x \in {h}} : TRUE

Ref_bool_own(h, r) == IF IsNone(getattr(h, r, "_resource")) THEN "false" ELSE "true"

(* Ref.__bool__: follows _owner; "loop" when the chain never ends. *)
RECURSIVE RefBoolFuel(_, _, _)
RefBoolFuel(h, r, fuel) ==
    IF ~IsNone(getattr(h, r, "_owner"))
    THEN IF fuel = 0 THEN "loop"
         ELSE RefBoolFuel(h, getattr(h, r, "_owner").o, fuel - 1)
    ELSE IF IsNone(getattr(h, r, "_resource")) THEN "false" ELSE "true"
Ref_bool(h, r) == RefBoolFuel(h, r, Len(h))

(* What Ref.__call__ gives besides a resource: NotConnected is the         *)
(* RuntimeError "Resource reference is not connected", Recursion the       *)
(* RecursionError of an _owner chain that never ends.                      *)
NotConnected == [t |-> "not connected"]
Recursion == [t |-> "recursion"]

Ref_call_one_hop(h, r) ==
    LET end == IF IsNone(getattr(h, r, "_owner")) THEN r ELSE getattr(h, r, "_owner").o
    IN IF IsNone(getattr(h, end, "_resource")) THEN NotConnected
       ELSE getattr(h, end, "_resource")

(* Ref.__call__ *)
RECURSIVE RefCallFuel(_, _, _)
RefCallFuel(h, r, fuel) ==
    IF ~IsNone(getattr(h, r, "_owner"))
    THEN IF fuel = 0 THEN Recursion
         ELSE RefCallFuel(h, getattr(h, r, "_owner").o, fuel - 1)
    ELSE IF IsNone(getattr(h, r, "_resource")) THEN NotConnected
         ELSE getattr(h, r, "_resource")
Ref_call(h, r) == RefCallFuel(h, r, Len(h))

(* Ref.resolve with generator None *)
Ref_resolve(h, r) == h

(* Ref.path *)
Ref_path(h, r) ==
    LET p == getattr(h, r, "_path").items
    IN [i \in 1..Len(p) |-> p[i].s] \o <<getattr(h, r, "_name").s>>

Ref_borrow(h, r, owner) == setattr(h, r, "_owner", Ptr(owner))
Ref_own(h, r, res) == setattr(h, r, "_resource", Ptr(res))

Ref_marshal == <<"_path", "_name", "_resource", "_owner">>

----------------------------------------------------------------------------
(* resource.Resource and the concrete classes *)

(* Resource.__init__ *)
NewResource(h, cls, path) ==
    CHOOSE new \in {
        [h |-> Alloc(x, Obj(cls, <<
                [k |-> "name", v |-> IF IsNone(path) THEN NoneV
                                     ELSE Str(Join(path.segs, "."))] >>)),
         o |-> Len(x) + 1] : x \in {h}} : TRUE

SomePath(segs) == [t |-> "path", segs |-> segs]

AddVar(h, r, key, default) ==
    CHOOSE done \in {setattr(nv.h, r, key, Ptr(nv.o)) :
                        nv \in {NewVar(h, Ptr(r), key, default)}} : TRUE

AddRef(h, r, key) ==
    CHOOSE done \in {setattr(nr.h, r, key, Ptr(nr.o)) :
                        nr \in {NewRef(h, Ptr(r), key)}} : TRUE

DefaultName(path, fallback) ==
    IF IsNone(path) THEN Tok(fallback) ELSE Str(Join(path.segs, "-"))

(* aws_ec2.SecurityGroup.__init__ *)
NewSecurityGroup(h, path) ==
    LET nr == NewResource(h, SecurityGroupClass, path)
        h1 == AddVar(nr.h, nr.o, "description", NoneV)
        h2 == AddVar(h1, nr.o, "ec2_name", DefaultName(path, "cluster-sg"))
        h3 == AddVar(h2, nr.o, "ec2_security_group_id", NoneV)
    IN [h |-> h3, o |-> nr.o]

(* aws_ec2.PublicIp.__init__ *)
NewPublicIp(h, path) ==
    LET nr == NewResource(h, PublicIpClass, path)
        h1 == AddVar(nr.h, nr.o, "ec2_name", DefaultName(path, "cluster-ip"))
        h2 == AddVar(h1, nr.o, "ec2_allocation_id", NoneV)
        h3 == AddVar(h2, nr.o, "ip_address", NoneV)
    IN [h |-> h3, o |-> nr.o]

(* aws_lambda.Method.__init__ *)
NewMethod(h, path) ==
    LET nr == NewResource(h, MethodClass, path)
        h1 == AddVar(nr.h, nr.o, "lambda_name", NoneV)
        h2 == AddVar(h1, nr.o, "lambda_arn", NoneV)
        h3 == AddVar(h2, nr.o, "resource_name", NoneV)
        h4 == AddVar(h3, nr.o, "method_name", NoneV)
        h5 == AddVar(h4, nr.o, "rest_api_id", NoneV)
        h6 == AddVar(h5, nr.o, "api_resource_id", NoneV)
    IN [h |-> h6, o |-> nr.o]

Ref_resolve_generator_always(h, r, generator) ==
    IF ~IsNone(getattr(h, r, "_owner")) \/ generator = "none"
    THEN [h |-> h, calls |-> 0]
    ELSE LET n == NewPublicIp(h, SomePath(Ref_path(h, r)))
         IN [h |-> setattr(n.h, r, "_resource", Ptr(n.o)), calls |-> 1]

(* Ref.resolve(phase, generator), the generator being None ("none") or a   *)
(* factory lambda path: PublicIp(path); the heap afterwards and the number *)
(* of calls of the generator.                                              *)
Ref_resolve_generator(h, r, generator) ==
    IF ~IsNone(getattr(h, r, "_owner")) THEN [h |-> h, calls |-> 0]
    ELSE IF IsNone(getattr(h, r, "_resource")) /\ generator # "none"
    THEN LET n == NewPublicIp(h, SomePath(Ref_path(h, r)))
         IN [h |-> setattr(n.h, r, "_resource", Ptr(n.o)), calls |-> 1]
    ELSE [h |-> h, calls |-> 0]

(* Names of the Reference fields an aggregate declares, in declaration order. *)
FieldNames == <<"a", "b", "c", "d", "e", "f">>

(* A Resource subclass that declares NRefs Reference fields in its          *)
(* constructor and inherits elaborate, up, down and marshal unchanged.      *)
RECURSIVE AddRefs(_, _, _)
AddRefs(h, r, i) ==
    IF i > NRefs THEN h ELSE AddRefs(AddRef(h, r, FieldNames[i]), r, i + 1)
NewAggregate(h, path) ==
    LET nr == NewResource(h, AggregateClass, path)
    IN [h |-> AddRefs(nr.h, nr.o, 1), o |-> nr.o]

KeyPairClass == <<"cluster_control", "aws_ec2", "KeyPair">>
ImageClass == <<"cluster_control", "file", "Image">>
InstanceClass == <<"cluster_control", "aws_ec2", "Instance">>

(* file.Image.__init__ *)
NewImage(h, path) ==
    LET nr == NewResource(h, ImageClass, path)
    IN [h |-> AddVar(nr.h, nr.o, "contents", NoneV), o |-> nr.o]

(* aws_ec2.KeyPair.__init__ *)
NewKeyPair(h, path) ==
    LET nr == NewResource(h, KeyPairClass, path)
        h1 == AddRef(nr.h, nr.o, "private")
    IN [h |-> AddVar(h1, nr.o, "ec2_name", DefaultName(path, "cluster-keypair")),
        o |-> nr.o]

(* aws_ec2.Instance.__init__ *)
NewInstance(h, path) ==
    LET nr == NewResource(h, InstanceClass, path)
        h0 == setattr(nr.h, nr.o, "local_key_file", NoneV)
        h1 == AddVar(h0, nr.o, "instance_type", NoneV)
        h2 == AddVar(h1, nr.o, "image", NoneV)
        h3 == AddVar(h2, nr.o, "root_user_name", NoneV)
        h4 == AddRef(h3, nr.o, "key_pair")
        h5 == AddRef(h4, nr.o, "security_group")
        h6 == AddRef(h5, nr.o, "public_ip")
    IN [h |-> AddVar(h6, nr.o, "ec2_instance_id", NoneV), o |-> nr.o]

(* aws_ec2.Cluster.__init__ *)
NewCluster(h, path) ==
    LET nr == NewResource(h, ClusterClass, path)
        h1 == AddVar(nr.h, nr.o, "instance_type", NoneV)
        h2 == AddVar(h1, nr.o, "image", NoneV)
        h3 == AddVar(h2, nr.o, "root_user_name", NoneV)
        h4 == AddVar(h3, nr.o, "count", NoneV)
        h5 == AddRef(h4, nr.o, "key_pair")
        h6 == AddRef(h5, nr.o, "security_group")
        h7 == AddRef(h6, nr.o, "public_ip")
    IN [h |-> setattr(h7, nr.o, "instances", ListV(<<>>)), o |-> nr.o]

(* JSONReader.instantiate / lookup_class: klass() with no arguments; the    *)
(* result has o = 0 when the class is not found or cannot be built so.      *)
instantiate(h, clspath) ==
    IF clspath = ClassPath(AggregateClass) THEN NewAggregate(h, NoneV)
    ELSE IF clspath = ClassPath(SecurityGroupClass) THEN NewSecurityGroup(h, NoneV)
    ELSE IF clspath = ClassPath(PublicIpClass) THEN NewPublicIp(h, NoneV)
    ELSE IF clspath = ClassPath(MethodClass) THEN NewMethod(h, NoneV)
    ELSE IF clspath = ClassPath(RefClass) THEN NewRef(h, NoneV, "")
    ELSE IF clspath = ClassPath(ImageClass) THEN NewImage(h, NoneV)
    ELSE IF clspath = ClassPath(KeyPairClass) THEN NewKeyPair(h, NoneV)
    ELSE IF clspath = ClassPath(InstanceClass) THEN NewInstance(h, NoneV)
    ELSE IF clspath = ClassPath(ClusterClass) THEN NewCluster(h, NoneV)
    ELSE [h |-> h, o |-> 0]

(* The attributes a marshal method visits, in order. *)
Resource_marshal(h, o) ==
    <<"name">> \o SelectSeq(Keys(h[o].d),
        LAMBDA k : IsVar(h, getattr(h, o, k)) \/ IsRef(h, getattr(h, o, k)))

MarshalAttrs(h, o) ==
    IF h[o].cls = VarClass THEN Var_marshal
    ELSE IF h[o].cls = RefClass THEN Ref_marshal
    ELSE IF h[o].cls = ClusterClass THEN Resource_marshal(h, o) \o <<"instances">>
    ELSE Resource_marshal(h, o)

----------------------------------------------------------------------------
(* formats.JSONWriter.  The identity table refs maps a class name to a     *)
(* dict from object to id; it is threaded through the whole pass.          *)

EmptyTable == [c \in {} |-> <<>>]
TableOf(refs, cn) == IF cn \in DOMAIN refs THEN refs[cn] ELSE EmptyTable

NewIdent_constant(byid) == IntStr(0)

(* The id a first-visited object gets: str(len(self.refs[class_name])). *)
NewIdent(byid) == IntStr(Cardinality(DOMAIN byid))

(* JSONWriter.beginObject: class name, is_ref, the id and the new table. *)
JSONWriter_beginObject(h, o, refs) ==
    LET class_name == Join(ClassPath(h[o].cls), ".")
        byid == TableOf(refs, class_name)
        is_ref == o \in DOMAIN byid
        byid2 == IF is_ref THEN byid ELSE (o :> NewIdent(byid)) @@ byid
    IN [class_name |-> class_name, is_ref |-> is_ref, ident |-> byid2[o],
        refs |-> (class_name :> byid2) @@ refs]

RECURSIVE WriteValue(_, _, _), WriteObject(_, _, _), WriteAttrs(_, _, _, _, _),
          WriteItems(_, _, _, _), WritePairs(_, _, _, _)

(* JSONWriter.inline / offline over the attributes a marshal method names. *)
WriteAttrs(h, o, attrs, kv, refs) ==
    IF Len(attrs) = 0 THEN [json |-> DictV(kv), refs |-> refs]
    ELSE LET w == WriteValue(h, getattr(h, o, Head(attrs)), refs)
         IN WriteAttrs(h, o, Tail(attrs), Put(kv, Head(attrs), w.json), w.refs)

(* obj.marshal(writer): beginObject, the inlines, endObject. *)
WriteObject(h, o, refs) ==
    LET b == JSONWriter_beginObject(h, o, refs)
        kv == << [k |-> "__class__", v |-> Str(b.class_name)],
                 [k |-> "__id__", v |-> Str(b.ident)] >>
    IN IF b.is_ref THEN [json |-> DictV(kv), refs |-> b.refs]
       ELSE WriteAttrs(h, o, MarshalAttrs(h, o), kv, b.refs)

WriteItems(h, items, done, refs) ==
    IF Len(items) = 0 THEN [json |-> ListV(done), refs |-> refs]
    ELSE LET w == WriteValue(h, Head(items), refs)
         IN WriteItems(h, Tail(items), Append(done, w.json), w.refs)

WritePairs(h, kv, done, refs) ==
    IF Len(kv) = 0 THEN [json |-> DictV(done), refs |-> refs]
    ELSE LET w == WriteValue(h, Head(kv).v, refs)
         IN WritePairs(h, Tail(kv), Put(done, Head(kv).k, w.json), w.refs)

(* JSONWriter.toJSON *)
WriteValue(h, val, refs) ==
    IF val.t = "list" THEN WriteItems(h, val.items, <<>>, refs)
    ELSE IF val.t = "dict" THEN WritePairs(h, val.kv, <<>>, refs)
    ELSE IF val.t = "ptr" THEN WriteObject(h, val.o, refs)
    ELSE [json |-> val, refs |-> refs]

(* JSONWriter(modules, root); root.marshal(writer); writer.toJSON() *)
WriteRoot(h, r) == WriteObject(h, r, EmptyTable)

----------------------------------------------------------------------------
(* formats.JSONReader.  st = [h, refs, err]: the heap, the identity table   *)
(* (class name -> id -> object) and whether an exception was raised.       *)

JSONReader_beginObject_unshared(json, o, refs) ==
    LET class_name == Get(json.kv, "__class__").s
        by_id == TableOf(refs, class_name)
    IN [obj |-> o, is_ref |-> FALSE,
        refs |-> (class_name :> ((Get(json.kv, "__id__").s :> o) @@ by_id)) @@ refs]

(* JSONReader.beginObject with self.obj = o: the object the reader goes on *)
(* with, is_ref and the new table.                                         *)
JSONReader_beginObject(json, o, refs) ==
    LET class_name == Get(json.kv, "__class__").s
        by_id == TableOf(refs, class_name)
        has_id == HasKey(json.kv, "__id__")
        ident == Get(json.kv, "__id__").s
        seen == has_id /\ ident \in DOMAIN by_id
        by_id2 == IF has_id /\ ~seen THEN (ident :> o) @@ by_id ELSE by_id
    IN [obj |-> IF seen THEN by_id[ident] ELSE o, is_ref |-> seen,
        refs |-> (class_name :> by_id2) @@ refs]

RECURSIVE ReadValue(_, _, _), ReadObject(_, _, _), ReadAttrs(_, _, _, _),
          ReadItems(_, _, _), ReadPairs(_, _, _)

ReadAttrs_strict(json, target, attrs, st) ==
    IF Len(attrs) = 0 \/ st.err THEN st
    ELSE IF ~HasKey(json.kv, Head(attrs)) THEN [st EXCEPT !.err = TRUE]
    ELSE IF ~hasattr(st.h, target, Head(attrs)) THEN [st EXCEPT !.err = TRUE]
    ELSE LET inline(r) ==
                 ReadAttrs(json, target, Tail(attrs),
                     [h |-> IF r.err THEN r.h
                            ELSE setattr(r.h, target, Head(attrs), r.val),
                      refs |-> r.refs, err |-> r.err])
         IN inline(ReadValue(Get(json.kv, Head(attrs)),
                             getattr(st.h, target, Head(attrs)), st))

(* JSONReader.inline over the attributes the marshal method of the object  *)
(* names; the values are set on the object beginObject settled on.         *)
ReadAttrs(json, target, attrs, st) ==
    IF Len(attrs) = 0 \/ st.err THEN st
    ELSE IF ~HasKey(json.kv, Head(attrs)) THEN ReadAttrs(json, target, Tail(attrs), st)
    ELSE IF ~hasattr(st.h, target, Head(attrs)) THEN [st EXCEPT !.err = TRUE]
    ELSE LET inline(r) ==
                 ReadAttrs(json, target, Tail(attrs),
                     [h |-> IF r.err THEN r.h
                            ELSE setattr(r.h, target, Head(attrs), r.val),
                      refs |-> r.refs, err |-> r.err])
         IN inline(ReadValue(Get(json.kv, Head(attrs)),
                             getattr(st.h, target, Head(attrs)), st))

ReadObject_register_late(json, o, st) ==
    IF ~HasKey(json.kv, "__class__")
    THEN [h |-> st.h, refs |-> st.refs, err |-> TRUE, val |-> NoneV]
    ELSE LET marshal(b) ==
                 LET endObject(r) ==
                         [h |-> r.h, refs |-> JSONReader_beginObject(json, o, r.refs).refs,
                          err |-> r.err, val |-> Ptr(b.obj)]
                 IN endObject(ReadAttrs(json, b.obj, MarshalAttrs(st.h, o),
                                        [h |-> st.h, refs |-> st.refs, err |-> FALSE]))
         IN marshal(JSONReader_beginObject(json, o, st.refs))

(* obj.marshal(reader) *)
ReadObject(json, o, st) ==
    IF ~HasKey(json.kv, "__class__")
    THEN [h |-> st.h, refs |-> st.refs, err |-> TRUE, val |-> NoneV]
    ELSE LET marshal(b) ==
                 LET endObject(r) ==
                         [h |-> r.h, refs |-> r.refs, err |-> r.err, val |-> Ptr(b.obj)]
                 IN endObject(ReadAttrs(json, b.obj, MarshalAttrs(st.h, o),
                                        [h |-> st.h, refs |-> b.refs, err |-> FALSE]))
         IN marshal(JSONReader_beginObject(json, o, st.refs))

ReadItems(items, done, st) ==
    IF Len(items) = 0 \/ st.err
    THEN [h |-> st.h, refs |-> st.refs, err |-> st.err, val |-> ListV(done)]
    ELSE LET item(r) == ReadItems(Tail(items), Append(done, r.val),
                                  [h |-> r.h, refs |-> r.refs, err |-> r.err])
         IN item(ReadValue(Head(items), NoneV, st))

ReadPairs(kv, done, st) ==
    IF Len(kv) = 0 \/ st.err
    THEN [h |-> st.h, refs |-> st.refs, err |-> st.err, val |-> DictV(done)]
    ELSE LET pair(r) == ReadPairs(Tail(kv), Put(done, Head(kv).k, r.val),
                                  [h |-> r.h, refs |-> r.refs, err |-> r.err])
         IN pair(ReadValue(Head(kv).v, NoneV, st))

(* JSONReader.read(obj) *)
ReadValue(json, obj, st) ==
    IF json.t = "list" THEN ReadItems(json.items, <<>>, st)
    ELSE IF json.t = "dict"
    THEN IF ~IsNone(obj)
         THEN IF IsPtr(obj) THEN ReadObject(json, obj.o, st)
              ELSE [h |-> st.h, refs |-> st.refs, err |-> TRUE, val |-> NoneV]
         ELSE IF HasKey(json.kv, "__class__")
         THEN LET marshal(n) ==
                      IF n.o = 0
                      THEN [h |-> st.h, refs |-> st.refs, err |-> TRUE, val |-> NoneV]
                      ELSE ReadObject(json, n.o, [st EXCEPT !.h = n.h])
              IN marshal(instantiate(st.h, Split(Get(json.kv, "__class__").s, ".")))
         ELSE ReadPairs(json.kv, <<>>, st)
    ELSE [h |-> st.h, refs |-> st.refs, err |-> st.err, val |-> json]

(* JSONReader(modules, as_json).read(): a new graph from a document. *)
ReadRoot(json) == ReadValue(json, NoneV, [h |-> <<>>, refs |-> EmptyTable, err |-> FALSE])

----------------------------------------------------------------------------
(* formats.JSONSetEncoder and formats.json_as_python_set: the two values   *)
(* json cannot write, bytes and sets of scalars, and their wrapped         *)
(* encodings.                                                              *)

BytesV(toks) == [t |-> "bytes", s |-> toks]
SetV(elems) == [t |-> "set", elems |-> elems]

(* list(obj) of a set: its elements in some order *)
RECURSIVE ListOf(_)
ListOf(elems) ==
    IF elems = {} THEN <<>>
    ELSE LET e == CHOOSE x \in elems : TRUE IN <<e>> \o ListOf(elems \ {e})

(* JSONSetEncoder.default *)
JSONSetEncoder_default(obj) ==
    IF obj.t = "set"
    THEN DictV(<<[k |-> "_set_object", v |-> ListV(ListOf(obj.elems))]>>)
    ELSE DictV(<<[k |-> "_bytes_object", v |-> Str(obj.s)]>>)

(* JSONWriter.toString: json.dumps(..., cls=JSONSetEncoder), as the         *)
(* document json.load gives back.                                          *)
RECURSIVE toString(_)
toString(json) ==
    IF json.t = "list"
    THEN ListV([i \in 1..Len(json.items) |-> toString(json.items[i])])
    ELSE IF json.t = "dict"
    THEN DictV([i \in 1..Len(json.kv) |->
                    [k |-> json.kv[i].k, v |-> toString(json.kv[i].v)]])
    ELSE IF json.t \in {"set", "bytes"} THEN toString(JSONSetEncoder_default(json))
    ELSE json

(* formats.json_as_python_set, the object_hook *)
json_as_python_set(dct) ==
    IF HasKey(dct.kv, "_set_object")
    THEN SetV({Get(dct.kv, "_set_object").items[i] :
                    i \in 1..Len(Get(dct.kv, "_set_object").items)})
    ELSE IF HasKey(dct.kv, "_bytes_object")
    THEN BytesV(Get(dct.kv, "_bytes_object").s)
    ELSE dct

(* json.load(fp, object_hook=formats.json_as_python_set): the hook is      *)
(* applied to every object of the document, the innermost first.           *)
RECURSIVE json_load_hooked(_)
json_load_hooked(json) ==
    IF json.t = "list"
    THEN ListV([i \in 1..Len(json.items) |-> json_load_hooked(json.items[i])])
    ELSE IF json.t = "dict"
    THEN json_as_python_set(DictV([i \in 1..Len(json.kv) |->
                    [k |-> json.kv[i].k, v |-> json_load_hooked(json.kv[i].v)]]))
    ELSE json

----------------------------------------------------------------------------
(* resource.PersistInFile and the files.  A file's contents are the        *)
(* document written to it (as json.load without a hook gives it back) and  *)
(* how many of its WriteChunks pieces are on disk.                         *)

FileName == <<"state">>
NextFileName_same(file_name) == file_name

(* next_file_name = f"{self.file_name}.next" *)
NextFileName(file_name) == Append(file_name, "next")
FileNames == {FileName, NextFileName(FileName)}

Absent == [exists |-> FALSE, doc |-> NoneV, n |-> 0]
Truncated == [exists |-> TRUE, doc |-> NoneV, n |-> 0]
Complete(doc) == [exists |-> TRUE, doc |-> doc, n |-> WriteChunks]
IsComplete(f) == f.exists /\ f.n = WriteChunks

(* os.rename(src, dst) *)
Rename(fsys, src, dst) ==
    IF src = dst THEN fsys
    ELSE [fsys EXCEPT ![dst] = fsys[src], ![src] = Absent]

(* PersistInFile.save run from its first statement to its last. *)
PersistInFile_save(fsys, h, r) ==
    LET next_file_name == NextFileName(FileName)
        written == [fsys EXCEPT ![next_file_name] =
                        Complete(toString(WriteRoot(h, r).json))]
    IN Rename(written, next_file_name, FileName)

----------------------------------------------------------------------------
(* resource.Resource: the default lifecycle *)

(* The Reference fields of a resource, in __dict__ order. *)
RefFields(h, r) ==
    LET keys == SelectSeq(Keys(h[r].d), LAMBDA k : IsRef(h, getattr(h, r, k)))
    IN [i \in 1..Len(keys) |-> getattr(h, r, keys[i]).o]

(* Resource.order_of_operations *)
order_of_operations(h, r) ==
    LET bound == SelectSeq(RefFields(h, r),
                           LAMBDA f : ~IsNone(getattr(h, f, "_resource")))
    IN [i \in 1..Len(bound) |-> getattr(h, bound[i], "_resource").o]

Backward_forward(seq) == seq

(* list(...).reverse() in Resource.down *)
Backward(seq) == [i \in 1..Len(seq) |-> seq[Len(seq) + 1 - i]]

(* Ref.elaborate on a Reference whose target, if any, declares no          *)
(* Reference field: resolve without a generator, the target's default      *)
(* elaborate (an empty loop), and the result bool(self).                   *)
Ref_elaborate(h, f) == Ref_bool(Ref_resolve(h, f), f)

----------------------------------------------------------------------------
(* resource.Phase *)

NewPhase(kind, item, cont) ==
    [kind |-> kind, item |-> item, has_error |-> FALSE, saved |-> FALSE, cont |-> cont]

Phase_missing_ignored(ph) == ph

(* Phase.missing *)
Phase_missing(ph) == [ph EXCEPT !.has_error = TRUE]

Phase_exit_save_resources(fsys, h, r, ph, e) ==
    [fs |-> PersistInFile_save(fsys, h, ph.item), calls |-> 1]

Phase_exit_save_root_only(fsys, h, r, ph, e) ==
    IF ph.kind = "root" THEN [fs |-> PersistInFile_save(fsys, h, r), calls |-> 1]
    ELSE [fs |-> fsys, calls |-> 0]

Phase_exit_save_unless_raising(fsys, h, r, ph, e) ==
    IF e = "none" THEN [fs |-> PersistInFile_save(fsys, h, r), calls |-> 1]
    ELSE [fs |-> fsys, calls |-> 0]

(* Phase.__exit__, first statement: self.persistor.save(self.resources).   *)
(* The files afterwards and the number of save calls made.                 *)
Phase_exit_save(fsys, h, r, ph, e) ==
    [fs |-> PersistInFile_save(fsys, h, r), calls |-> 1]

Phase_exit_raise_swallowing(ph, e) == IF ph.has_error THEN "missing" ELSE "none"

(* Phase.__exit__, second statement: what leaves the with block.  The      *)
(* method returns None, so an exception in flight is not swallowed.        *)
Phase_exit_raise(ph, e) == IF ph.has_error THEN "missing" ELSE e

Top(stack) == stack[Len(stack)]
Pop(stack) == SubSeq(stack, 1, Len(stack) - 1)
SetTop(stack, ph) == [stack EXCEPT ![Len(stack)] = ph]

----------------------------------------------------------------------------
(* The concrete leaf resources.  failAt numbers the external call that is  *)
(* rejected (0: none).  Each result is the heap afterwards, the number of  *)
(* create calls the cloud accepted, and the exception raised.              *)

VarOf(h, r, key) == getattr(h, r, key).o
NameOf(h, r) == getattr(h, r, "name").s

(* aws_ec2.SecurityGroup.up, after super().up(phase) found no child *)
SecurityGroup_up(h, r, failAt) ==
    IF Var_bool(h, VarOf(h, r, "ec2_security_group_id"))
    THEN [h |-> h, created |-> 0, exc |-> "none"]
    ELSE IF ~Var_bool(h, VarOf(h, r, "description"))
    THEN [h |-> h, created |-> 0, exc |-> "none"]
    ELSE LET n == Var_call(h, VarOf(h, r, "ec2_name"))
             d == Var_call(n.h, VarOf(h, r, "description"))
         IN IF n.err \/ d.err THEN [h |-> d.h, created |-> 0, exc |-> "config"]
            ELSE IF failAt = 1 THEN [h |-> d.h, created |-> 0, exc |-> "external"]
            ELSE [h |-> Var_select(d.h, VarOf(h, r, "ec2_security_group_id"), Tok("sg-id")),
                  created |-> 1,
                  exc |-> IF failAt = 2 THEN "external" ELSE "none"]

(* aws_ec2.SecurityGroup.down *)
SecurityGroup_down(h, r, failAt) ==
    IF Var_bool(h, VarOf(h, r, "ec2_security_group_id"))
    THEN IF failAt = 1 THEN [h |-> h, deleted |-> 0, exc |-> "external"]
         ELSE [h |-> Var_clear(h, VarOf(h, r, "ec2_security_group_id")),
               deleted |-> 1, exc |-> "none"]
    ELSE [h |-> h, deleted |-> 0, exc |-> "none"]

(* aws_ec2.PublicIp.up *)
PublicIp_up(h, r, failAt) ==
    IF Var_bool(h, VarOf(h, r, "ec2_allocation_id")) /\ Var_bool(h, VarOf(h, r, "ip_address"))
    THEN [h |-> h, created |-> 0, exc |-> "none"]
    ELSE IF failAt = 1 THEN [h |-> h, created |-> 0, exc |-> "external"]
    ELSE [h |-> Var_select(Var_select(h, VarOf(h, r, "ec2_allocation_id"), Tok("alloc-id")),
                           VarOf(h, r, "ip_address"), Tok("ip")),
          created |-> 1, exc |-> "none"]

(* aws_ec2.PublicIp.down *)
PublicIp_down(h, r, failAt) ==
    IF Var_bool(h, VarOf(h, r, "ec2_allocation_id"))
    THEN IF failAt = 1 THEN [h |-> h, deleted |-> 0, exc |-> "external"]
         ELSE [h |-> Var_clear(Var_clear(h, VarOf(h, r, "ec2_allocation_id")),
                               VarOf(h, r, "ip_address")),
               deleted |-> 1, exc |-> "none"]
    ELSE [h |-> Var_clear(h, VarOf(h, r, "ip_address")), deleted |-> 0, exc |-> "none"]

(* Reading several Vars in turn: the heap afterwards and whether one raised. *)
RECURSIVE ReadVars(_, _, _)
ReadVars(h, r, keys) ==
    IF Len(keys) = 0 THEN [h |-> h, err |-> FALSE]
    ELSE LET c == Var_call(h, VarOf(h, r, Head(keys)))
         IN IF c.err THEN [h |-> c.h, err |-> TRUE] ELSE ReadVars(c.h, r, Tail(keys))

(* aws_lambda.Method.up, the description of its phase.sub(...) *)
Method_up_description(h, r) == ReadVars(h, r, <<"method_name", "resource_name">>)

(* aws_lambda.Method.up, the body of its with block: put_method is call 1, *)
(* the three calls after it are call 2.                                    *)
Method_up_body(h, r, failAt) ==
    LET c == ReadVars(h, r, <<"rest_api_id", "api_resource_id">>)
    IN IF c.err THEN [h |-> c.h, created |-> 0, exc |-> "config"]
       ELSE IF failAt = 1 THEN [h |-> c.h, created |-> 0, exc |-> "external"]
       ELSE IF failAt = 2 THEN [h |-> c.h, created |-> 1, exc |-> "external"]
       ELSE LET a == ReadVars(c.h, r, <<"lambda_arn">>)
            IN [h |-> a.h, created |-> 1, exc |-> IF a.err THEN "config" ELSE "none"]

(* The external calls a leaf's up / down can have rejected. *)
UpFailPoints(cls) == IF cls = PublicIpClass THEN 0..1 ELSE 0..2
DownFailPoints(cls) == IF cls = MethodClass THEN {0} ELSE 0..1

Leaf_up(h, r, failAt) ==
    IF h[r].cls = SecurityGroupClass THEN SecurityGroup_up(h, r, failAt)
    ELSE PublicIp_up(h, r, failAt)

(* Method inherits Resource.down, which finds no child. *)
Leaf_down(h, r, failAt) ==
    IF h[r].cls = SecurityGroupClass THEN SecurityGroup_down(h, r, failAt)
    ELSE IF h[r].cls = PublicIpClass THEN PublicIp_down(h, r, failAt)
    ELSE [h |-> h, deleted |-> 0, exc |-> "none"]

----------------------------------------------------------------------------
(* The configurations a run can start from: an aggregate whose Reference   *)
(* fields are each left unbound, borrowed from a sibling field, or own a   *)
(* leaf resource; built with the constructors and written by the codec.    *)

Bindings == {"unbound", "alias", "SecurityGroup", "Undescribed", "PublicIp", "Method"}

ChildPath(i) == SomePath(<<<<"root">>, <<FieldNames[i]>>>>)
ChildName(i) == Join(ChildPath(i).segs, ".")
ChildNames == {ChildName(i) : i \in 1..NRefs}

(* The sibling field a borrowed Reference borrows from. *)
Lender(i) == IF i = 1 THEN NRefs ELSE i - 1

MethodVars == <<"lambda_name", "lambda_arn", "resource_name", "method_name",
                "rest_api_id", "api_resource_id">>

RECURSIVE SelectAll(_, _, _)
SelectAll(h, r, keys) ==
    IF Len(keys) = 0 THEN h
    ELSE SelectAll(Var_select(h, VarOf(h, r, Head(keys)), Tok(Head(keys))), r, Tail(keys))

NewChild(h, kind, i) ==
    IF kind = "SecurityGroup"
    THEN LET n == NewSecurityGroup(h, ChildPath(i))
         IN [h |-> Var_select(n.h, VarOf(n.h, n.o, "description"), Tok("text")), o |-> n.o]
    ELSE IF kind = "Undescribed" THEN NewSecurityGroup(h, ChildPath(i))
    ELSE IF kind = "PublicIp" THEN NewPublicIp(h, ChildPath(i))
    ELSE LET n == NewMethod(h, ChildPath(i))
         IN [h |-> SelectAll(n.h, n.o, MethodVars), o |-> n.o]

RECURSIVE Wire(_, _, _, _)
Wire(h, r, bind, i) ==
    IF i > Len(RefFields(h, r)) THEN h
    ELSE LET f == RefFields(h, r)[i]
         IN IF bind[i] = "unbound" THEN Wire(h, r, bind, i + 1)
            ELSE IF bind[i] = "alias"
            THEN Wire(Ref_borrow(h, f, RefFields(h, r)[Lender(i)]), r, bind, i + 1)
            ELSE LET n == NewChild(h, bind[i], i)
                 IN Wire(Ref_own(n.h, f, n.o), r, bind, i + 1)

BuildGraph(bind) ==
    LET n == NewAggregate(<<>>, SomePath(<<<<"root">>>>))
    IN [h |-> Wire(n.h, n.o, bind, 1), o |-> n.o]

NewHist(prev) ==
    [upSeq |-> <<>>, downSeq |-> <<>>, saves |-> 0, exits |-> 0, entered |-> 0,
     missing |-> 0, visited |-> 0, outcome |-> "none", failIdx |-> 0,
     failDepth |-> 0, unwound |-> 0, effects |-> <<>>, snap |-> <<>>, ckpt |-> <<>>,
     prev |-> prev]

NoRun == [verb |-> "none", upSeq |-> <<>>, failIdx |-> 0, outcome |-> "none"]
Summary(v, hh) == [verb |-> v, upSeq |-> hh.upSeq, failIdx |-> hh.failIdx,
                   outcome |-> hh.outcome]

NoSave == [step |-> "none", before |-> Absent, next |-> Absent]

Init ==
    \E bind \in [1..NRefs -> Bindings] :
        LET g == BuildGraph(bind)
        IN /\ heap = g.h
           /\ root = g.o
           /\ fs = [f \in FileNames |->
                      IF f = FileName THEN Complete(WriteRoot(g.h, g.o).json) ELSE Absent]
           /\ pc = "idle"
           /\ phases = <<>>
           /\ ops = <<>>
           /\ idx = 1
           /\ exc = "none"
           /\ verb = "none"
           /\ runs = 0
           /\ world = [n \in ChildNames |-> 0]
           /\ hist = NewHist(NoRun)
           /\ sv = NoSave

----------------------------------------------------------------------------
(* One command-line invocation: control.py reads the configuration file,   *)
(* builds the persistor on the graph it read, and runs the verb inside the *)
(* root Phase.                                                             *)

Push(kind, item, cont) ==
    /\ phases' = Append(phases, NewPhase(kind, item, cont))
    /\ hist' = [hist EXCEPT !.entered = @ + 1]

Start(v) ==
    /\ pc \in {"idle", "done"}
    /\ runs < MaxRuns
    /\ runs' = runs + 1
    /\ verb' = v
    /\ idx' = 1
    /\ ops' = <<>>
    /\ IF ~IsComplete(fs[FileName])
       THEN /\ heap' = <<>>
            /\ root' = 0
            /\ phases' = <<>>
            /\ pc' = "done"
            /\ exc' = "load"
            /\ hist' = [NewHist(Summary(verb, hist)) EXCEPT !.outcome = "raised"]
       ELSE LET r == ReadRoot(fs[FileName].doc)
            IN IF r.err \/ ~IsResource(r.h, r.val)
               THEN /\ heap' = <<>>
                    /\ root' = 0
                    /\ phases' = <<>>
                    /\ pc' = "done"
                    /\ exc' = "load"
                    /\ hist' = [NewHist(Summary(verb, hist)) EXCEPT !.outcome = "raised"]
               ELSE /\ heap' = r.h
                    /\ root' = r.val.o
                    /\ phases' = <<NewPhase("root", r.val.o, "done")>>
                    /\ pc' = IF v = "up" THEN "elab" ELSE "down_begin"
                    /\ exc' = "none"
                    /\ hist' = [NewHist(Summary(verb, hist)) EXCEPT !.entered = 1]
    /\ sv' = NoSave
    /\ UNCHANGED <<fs, world>>

(* Resource.elaborate: the loop over __dict__ reaches a Reference field and *)
(* enters phase.sub(...).                                                   *)
ElabEnter ==
    /\ pc = "elab"
    /\ idx <= Len(RefFields(heap, root))
    /\ Push("elab", RefFields(heap, root)[idx], "elab")
    /\ idx' = idx + 1
    /\ pc' = "elab_body"
    /\ UNCHANGED <<heap, root, fs, ops, exc, verb, runs, world, sv>>

(* The body of that with block: value.elaborate(phase), phase.missing(value) *)
ElabBody ==
    /\ pc = "elab_body"
    /\ LET f == Top(phases).item
           b == Ref_elaborate(heap, f)
       IN /\ exc' = IF b = "loop" THEN "recursion" ELSE "none"
          /\ phases' = IF b = "false" THEN SetTop(phases, Phase_missing(Top(phases)))
                       ELSE phases
          /\ hist' = [hist EXCEPT !.visited = @ + 1,
                                  !.missing = IF b = "false" THEN @ + 1 ELSE @]
    /\ pc' = "exit"
    /\ UNCHANGED <<heap, root, fs, ops, idx, verb, runs, world, sv>>

(* Resource.elaborate returns; control.py goes on to config.up(phase), whose *)
(* first step evaluates self.order_of_operations().                          *)
UpBegin ==
    /\ pc = "elab"
    /\ idx > Len(RefFields(heap, root))
    /\ ops' = order_of_operations(heap, root)
    /\ idx' = 1
    /\ pc' = "up"
    /\ UNCHANGED <<heap, root, fs, phases, exc, verb, runs, world, hist, sv>>

(* Resource.up: the loop enters Phase("UP ...") for the next operation. *)
UpEnter ==
    /\ pc = "up"
    /\ idx <= Len(ops)
    /\ Push("up", ops[idx], "up")
    /\ idx' = idx + 1
    /\ pc' = "up_body"
    /\ UNCHANGED <<heap, root, fs, ops, exc, verb, runs, world, sv>>

Bump(w, name, k) == [w EXCEPT ![name] = @ + k]

(* What a run shows of one child's up: the create call the cloud accepted, *)
(* the child as it stood when its up returned, or where the up raised.     *)
Observe(hh, r, u) ==
    [hh EXCEPT
       !.effects = IF u.created > 0 THEN Append(@, NameOf(u.h, r)) ELSE @,
       !.snap = IF u.exc = "none" THEN Append(@, WriteObject(u.h, r, EmptyTable).json) ELSE @,
       !.failIdx = IF u.exc = "none" THEN @ ELSE idx - 1,
       !.failDepth = IF u.exc = "none" THEN @ ELSE Len(phases)]

(* operation.up(phase) for a SecurityGroup or a PublicIp *)
UpLeaf(failAt) ==
    /\ pc = "up_body"
    /\ heap[Top(phases).item].cls # MethodClass
    /\ failAt \in UpFailPoints(heap[Top(phases).item].cls)
    /\ LET r == Top(phases).item
           u == Leaf_up(heap, r, failAt)
       IN /\ heap' = u.h
          /\ exc' = u.exc
          /\ world' = Bump(world, NameOf(heap, r), u.created)
          /\ hist' = Observe([hist EXCEPT !.upSeq = Append(@, NameOf(heap, r))], r, u)
    /\ pc' = "exit"
    /\ UNCHANGED <<root, fs, phases, ops, idx, verb, runs, sv>>

(* operation.up(phase) for a Method: up to entering its phase.sub(...) *)
MethodUp ==
    /\ pc = "up_body"
    /\ heap[Top(phases).item].cls = MethodClass
    /\ LET r == Top(phases).item
           d == Method_up_description(heap, r)
       IN /\ heap' = d.h
          /\ IF d.err
             THEN /\ exc' = "config"
                  /\ pc' = "exit"
                  /\ phases' = phases
                  /\ hist' = [hist EXCEPT !.upSeq = Append(@, NameOf(heap, r)),
                                          !.failIdx = idx - 1,
                                          !.failDepth = Len(phases)]
             ELSE /\ exc' = "none"
                  /\ pc' = "method_body"
                  /\ phases' = Append(phases, NewPhase("sub", r, "exit"))
                  /\ hist' = [hist EXCEPT !.upSeq = Append(@, NameOf(heap, r)),
                                          !.entered = @ + 1]
    /\ UNCHANGED <<root, fs, ops, idx, verb, runs, world, sv>>

(* The body of Method.up's with block. *)
MethodBody(failAt) ==
    /\ pc = "method_body"
    /\ failAt \in UpFailPoints(MethodClass)
    /\ LET r == Top(phases).item
           u == Method_up_body(heap, r, failAt)
       IN /\ heap' = u.h
          /\ exc' = u.exc
          /\ world' = Bump(world, NameOf(heap, r), u.created)
          /\ hist' = Observe(hist, r, u)
    /\ pc' = "exit"
    /\ UNCHANGED <<root, fs, phases, ops, idx, verb, runs, sv>>

(* Resource.up returns: the body of the root with block is over. *)
UpReturn ==
    /\ pc = "up"
    /\ idx > Len(ops)
    /\ pc' = "exit"
    /\ UNCHANGED <<heap, root, fs, phases, ops, idx, exc, verb, runs, world, hist, sv>>

(* Resource.down: backward = list(self.order_of_operations()); reverse() *)
DownBegin ==
    /\ pc = "down_begin"
    /\ ops' = Backward(order_of_operations(heap, root))
    /\ idx' = 1
    /\ pc' = "down"
    /\ UNCHANGED <<heap, root, fs, phases, exc, verb, runs, world, hist, sv>>

(* Resource.down: the loop enters Phase("DOWN ...") for the next operation. *)
DownEnter ==
    /\ pc = "down"
    /\ idx <= Len(ops)
    /\ Push("down", ops[idx], "down")
    /\ idx' = idx + 1
    /\ pc' = "down_body"
    /\ UNCHANGED <<heap, root, fs, ops, exc, verb, runs, world, sv>>

(* operation.down(phase); a completed down ends the child's realisation. *)
DownLeaf(failAt) ==
    /\ pc = "down_body"
    /\ failAt \in DownFailPoints(heap[Top(phases).item].cls)
    /\ LET r == Top(phases).item
           u == Leaf_down(heap, r, failAt)
       IN /\ heap' = u.h
          /\ exc' = u.exc
          /\ world' = IF u.exc = "none" THEN [world EXCEPT ![NameOf(heap, r)] = 0]
                      ELSE world
          /\ hist' = [hist EXCEPT !.downSeq = Append(@, NameOf(heap, r)),
                                  !.failIdx = IF u.exc = "none" THEN @ ELSE idx - 1,
                                  !.failDepth = IF u.exc = "none" THEN @ ELSE Len(phases)]
    /\ pc' = "exit"
    /\ UNCHANGED <<root, fs, phases, ops, idx, verb, runs, sv>>

(* Resource.down returns: the body of the root with block is over. *)
DownReturn ==
    /\ pc = "down"
    /\ idx > Len(ops)
    /\ pc' = "exit"
    /\ UNCHANGED <<heap, root, fs, phases, ops, idx, exc, verb, runs, world, hist, sv>>

(* What a run shows of one save: the child whose own phase made it. *)
Checkpoint(hh, h, ph, calls) ==
    [hh EXCEPT !.ckpt = IF calls > 0 /\ ph.kind \in {"up", "down"}
                        THEN Append(@, NameOf(h, ph.item)) ELSE @]

(* Phase.__exit__ up to and including self.persistor.save(self.resources) *)
ExitSave ==
    /\ pc = "exit"
    /\ ~Top(phases).saved
    /\ LET s == Phase_exit_save(fs, heap, root, Top(phases), exc)
       IN /\ fs' = s.fs
          /\ hist' = Checkpoint([hist EXCEPT !.saves = @ + s.calls,
                                   !.unwound = IF exc = "none" THEN @ ELSE @ + s.calls],
                                  heap, Top(phases), s.calls)
    /\ phases' = SetTop(phases, [Top(phases) EXCEPT !.saved = TRUE])
    /\ UNCHANGED <<heap, root, pc, ops, idx, exc, verb, runs, world, sv>>

(* Phase.__exit__ after the save: raise if has_error, and the with block is *)
(* left, normally to the statement after it or with the exception to the    *)
(* enclosing block.                                                         *)
ExitLeave ==
    /\ pc = "exit"
    /\ Top(phases).saved
    /\ LET e == Phase_exit_raise(Top(phases), exc)
           rest == Pop(phases)
           nxt == IF e = "none" THEN Top(phases).cont
                  ELSE IF Len(rest) = 0 THEN "done" ELSE "exit"
       IN /\ exc' = e
          /\ phases' = rest
          /\ pc' = nxt
          /\ hist' = [hist EXCEPT !.exits = @ + 1,
                                  !.outcome = IF nxt # "done" THEN @
                                              ELSE IF e = "none" THEN "ok" ELSE "raised"]
    /\ sv' = NoSave
    /\ UNCHANGED <<heap, root, fs, ops, idx, verb, runs, world>>

Next ==
    \/ \E v \in {"up", "down"} : Start(v)
    \/ ElabEnter
    \/ ElabBody
    \/ UpBegin
    \/ UpEnter
    \/ \E failAt \in 0..2 : UpLeaf(failAt)
    \/ MethodUp
    \/ \E failAt \in 0..2 : MethodBody(failAt)
    \/ UpReturn
    \/ DownBegin
    \/ DownEnter
    \/ \E failAt \in 0..1 : DownLeaf(failAt)
    \/ DownReturn
    \/ ExitSave
    \/ ExitLeave

Spec == Init /\ [][Next]_vars

----------------------------------------------------------------------------
(* PersistInFile.save statement by statement, with the process killed at   *)
(* any point between its statements.  sv remembers what <path> held when   *)
(* the save began and what <path>.next held when it was renamed.           *)

(* open(next_file_name, 'wt'): the file is created or truncated. *)
SaveOpen ==
    /\ pc = "exit"
    /\ ~Top(phases).saved
    /\ sv.step = "none"
    /\ fs' = [fs EXCEPT ![NextFileName(FileName)] = Truncated]
    /\ sv' = [step |-> "open", before |-> fs[FileName], next |-> Absent]
    /\ UNCHANGED <<heap, root, pc, phases, ops, idx, exc, verb, runs, world, hist>>

(* fp.write(writer.toString()): one more piece reaches the disk; the with  *)
(* block closes the file after the last.                                   *)
SaveWrite ==
    /\ sv.step \in {"open", "writing"}
    /\ LET name == NextFileName(FileName)
           g == [exists |-> TRUE, doc |-> WriteRoot(heap, root).json, n |-> fs[name].n + 1]
       IN /\ fs' = [fs EXCEPT ![name] = g]
          /\ sv' = [sv EXCEPT !.step = IF IsComplete(g) THEN "written" ELSE "writing"]
    /\ UNCHANGED <<heap, root, pc, phases, ops, idx, exc, verb, runs, world, hist>>

(* os.rename(next_file_name, self.file_name); save returns to __exit__. *)
SaveRename ==
    /\ sv.step = "written"
    /\ fs' = Rename(fs, NextFileName(FileName), FileName)
    /\ sv' = [sv EXCEPT !.step = "renamed", !.next = fs[NextFileName(FileName)]]
    /\ phases' = SetTop(phases, [Top(phases) EXCEPT !.saved = TRUE])
    /\ hist' = Checkpoint([hist EXCEPT !.saves = @ + 1,
                             !.unwound = IF exc = "none" THEN @ ELSE @ + 1],
                            heap, Top(phases), 1)
    /\ UNCHANGED <<heap, root, pc, ops, idx, exc, verb, runs, world>>

(* The process is killed inside save: its memory is gone, the files stay. *)
Interrupt ==
    /\ sv.step \in {"open", "writing", "written"}
    /\ heap' = <<>>
    /\ root' = 0
    /\ phases' = <<>>
    /\ ops' = <<>>
    /\ idx' = 1
    /\ pc' = "done"
    /\ exc' = "killed"
    /\ hist' = [NewHist(hist.prev) EXCEPT !.outcome = "killed"]
    /\ sv' = [sv EXCEPT !.step = "killed"]
    /\ UNCHANGED <<fs, verb, runs, world>>

NextCrash ==
    \/ \E v \in {"up", "down"} : Start(v)
    \/ ElabEnter
    \/ ElabBody
    \/ UpBegin
    \/ UpEnter
    \/ \E failAt \in 0..2 : UpLeaf(failAt)
    \/ MethodUp
    \/ \E failAt \in 0..2 : MethodBody(failAt)
    \/ UpReturn
    \/ DownBegin
    \/ DownEnter
    \/ \E failAt \in 0..1 : DownLeaf(failAt)
    \/ DownReturn
    \/ SaveOpen
    \/ SaveWrite
    \/ SaveRename
    \/ Interrupt
    \/ ExitLeave

(* The configurations of the stepwise runs: every field owns a child, one  *)
(* of them a Method, whose up nests a third Phase.                         *)
InitCrash ==
    /\ Init
    /\ \A f \in 1..Len(RefFields(heap, root)) :
           ~IsNone(getattr(heap, RefFields(heap, root)[f], "_resource"))
    /\ \E f \in 1..Len(RefFields(heap, root)) :
           heap[getattr(heap, RefFields(heap, root)[f], "_resource").o].cls = MethodClass

SpecCrash == InitCrash /\ [][NextCrash]_vars

----------------------------------------------------------------------------
(* The codec on its own: a graph is built with the constructors, edited    *)
(* with Resource.alias and Var.select, written with JSONWriter, read back  *)
(* with JSONReader, and the copy is then changed through one holder.       *)

MaxEdits == 1       \* alias / select calls after construction

(* The Var attributes two resources can share by alias. *)
AliasKeys == {"ec2_name", "rest_api_id"}

Field(h, r, i) == getattr(h, r, FieldNames[i]).o
Owns(h, r, i) == ~IsNone(getattr(h, Field(h, r, i), "_resource"))
Child(h, r, i) == getattr(h, Field(h, r, i), "_resource").o

NoCodec == [json |-> NoneV, wrefs |-> EmptyTable, rh |-> <<>>, rroot |-> NoneV,
            rrefs |-> EmptyTable, err |-> FALSE, via |-> 0, key |-> ""]

InitCodec ==
    \E bind \in [1..NRefs -> Bindings] :
        LET g == BuildGraph(bind)
        IN /\ heap = g.h
           /\ root = g.o
           /\ fs = [f \in FileNames |-> Absent]
           /\ pc = "build"
           /\ phases = <<>>
           /\ ops = <<>>
           /\ idx = 0
           /\ exc = "none"
           /\ verb = "codec"
           /\ runs = 0
           /\ world = [n \in ChildNames |-> 0]
           /\ hist = NoCodec
           /\ sv = NoSave

Edit(h) ==
    /\ pc = "build"
    /\ idx < MaxEdits
    /\ idx' = idx + 1
    /\ heap' = h
    /\ UNCHANGED <<root, fs, pc, phases, ops, exc, verb, runs, world, hist, sv>>

(* Resource.alias(key=<a Ref>): self.__dict__[key].borrow(value) *)
AliasRef(i, j) ==
    /\ i # j
    /\ Edit(Ref_borrow(heap, Field(heap, root, i), Field(heap, root, j)))

(* Resource.alias(key=<a Var>) on a child: self.__dict__[key] = value *)
AliasVar(i, j, key) ==
    /\ i # j
    /\ pc = "build"
    /\ Owns(heap, root, i) /\ Owns(heap, root, j)
    /\ hasattr(heap, Child(heap, root, i), key)
    /\ hasattr(heap, Child(heap, root, j), key)
    /\ Edit(setattr(heap, Child(heap, root, i), key,
                    Ptr(VarOf(heap, Child(heap, root, j), key))))

(* Var.select on a child's variable *)
SelectVar(i, key) ==
    /\ pc = "build"
    /\ Owns(heap, root, i)
    /\ hasattr(heap, Child(heap, root, i), key)
    /\ Edit(Var_select(heap, VarOf(heap, Child(heap, root, i), key), Tok("chosen")))

(* writer = JSONWriter(modules, root); root.marshal(writer); writer.toJSON() *)
CodecWrite ==
    /\ pc = "build"
    /\ pc' = "written"
    /\ LET w == WriteRoot(heap, root)
       IN hist' = [hist EXCEPT !.json = w.json, !.wrefs = w.refs]
    /\ UNCHANGED <<heap, root, fs, phases, ops, idx, exc, verb, runs, world, sv>>

(* JSONReader(modules, as_json).read() *)
CodecRead ==
    /\ pc = "written"
    /\ pc' = "read"
    /\ LET r == ReadRoot(hist.json)
       IN hist' = [hist EXCEPT !.rh = r.h, !.rroot = r.val, !.rrefs = r.refs,
                               !.err = r.err]
    /\ UNCHANGED <<heap, root, fs, phases, ops, idx, exc, verb, runs, world, sv>>

(* Var.select on the copy, reached through the child of field i *)
CodecMutate(i, key) ==
    /\ pc = "read"
    /\ ~hist.err
    /\ Owns(hist.rh, hist.rroot.o, i)
    /\ hasattr(hist.rh, Child(hist.rh, hist.rroot.o, i), key)
    /\ pc' = "mutated"
    /\ hist' = [hist EXCEPT
                  !.rh = Var_select(@, VarOf(@, Child(@, hist.rroot.o, i), key),
                                    Tok("changed")),
                  !.via = i, !.key = key]
    /\ UNCHANGED <<heap, root, fs, phases, ops, idx, exc, verb, runs, world, sv>>

NextCodec ==
    \/ \E i, j \in 1..NRefs : AliasRef(i, j)
    \/ \E i, j \in 1..NRefs : \E key \in AliasKeys : AliasVar(i, j, key)
    \/ \E i \in 1..NRefs : \E key \in AliasKeys : SelectVar(i, key)
    \/ CodecWrite
    \/ CodecRead
    \/ \E i \in 1..NRefs : \E key \in AliasKeys : CodecMutate(i, key)

SpecCodec == InitCodec /\ [][NextCodec]_vars

----------------------------------------------------------------------------
(* Properties of the codec, checked under SpecCodec.                       *)

Copied == pc \in {"read", "mutated"}
CopyRoot == hist.rroot.o

SameVar(h1, v1, h2, v2) ==
    \A n \in 1..Len(Var_marshal) :
        getattr(h1, v1, Var_marshal[n]) = getattr(h2, v2, Var_marshal[n])

SameResource(h1, r1, h2, r2) ==
    /\ h1[r1].cls = h2[r2].cls
    /\ Keys(h1[r1].d) = Keys(h2[r2].d)
    /\ getattr(h1, r1, "name") = getattr(h2, r2, "name")
    /\ \A n \in 1..Len(h1[r1].d) :
           LET k == h1[r1].d[n].k
           IN IsVar(h1, getattr(h1, r1, k)) =>
                /\ IsVar(h2, getattr(h2, r2, k))
                /\ SameVar(h1, VarOf(h1, r1, k), h2, VarOf(h2, r2, k))

SameField(i) ==
    LET f1 == Field(heap, root, i)
        f2 == Field(hist.rh, CopyRoot, i)
    IN /\ hist.rh[f2].cls = RefClass
       /\ getattr(heap, f1, "_path") = getattr(hist.rh, f2, "_path")
       /\ getattr(heap, f1, "_name") = getattr(hist.rh, f2, "_name")
       /\ IsNone(getattr(heap, f1, "_owner")) = IsNone(getattr(hist.rh, f2, "_owner"))
       /\ Owns(heap, root, i) = Owns(hist.rh, CopyRoot, i)
       /\ Owns(heap, root, i) =>
            SameResource(heap, Child(heap, root, i), hist.rh, Child(hist.rh, CopyRoot, i))

(* Field i borrows from field j; the children of i and j hold one Var. *)
Borrows(h, r, i, j) == getattr(h, Field(h, r, i), "_owner") = Ptr(Field(h, r, j))
SharesVar(h, r, i, j, key) ==
    /\ Owns(h, r, i) /\ Owns(h, r, j)
    /\ hasattr(h, Child(h, r, i), key) /\ hasattr(h, Child(h, r, j), key)
    /\ VarOf(h, Child(h, r, i), key) = VarOf(h, Child(h, r, j), key)

(* C5: the graph read back from what JSONWriter wrote is read without     *)
(* error and equals the written graph in every marshalled field; a        *)
(* Reference that borrowed from another Reference borrows from that        *)
(* Reference's copy, two resources that held one Var hold one Var in the  *)
(* copy, and a value selected on the copy through one of them is the      *)
(* value the other one reads.                                             *)
C5_RoundTripKeepsSharing ==
    Copied =>
        /\ ~hist.err
        /\ hist.rh[CopyRoot].cls = heap[root].cls
        /\ getattr(hist.rh, CopyRoot, "name") = getattr(heap, root, "name")
        /\ \A i \in 1..NRefs : pc = "read" => SameField(i)
        /\ \A i, j \in 1..NRefs :
               Borrows(heap, root, i, j) <=> Borrows(hist.rh, CopyRoot, i, j)
        /\ \A i, j \in 1..NRefs : \A key \in AliasKeys :
               SharesVar(heap, root, i, j, key) <=> SharesVar(hist.rh, CopyRoot, i, j, key)
        /\ \A j \in 1..NRefs :
               (pc = "mutated" /\ SharesVar(heap, root, hist.via, j, hist.key)) =>
                   Var_call(hist.rh, VarOf(hist.rh, Child(hist.rh, CopyRoot, j), hist.key)).val
                       = Tok("changed")

(* A copy with a borrowed Reference and a Var held by two children, after *)
(* the Var was changed through one of the two.                            *)
C5_Witness ==
    /\ pc = "mutated"
    /\ \E i, j \in 1..NRefs : i # j /\ Borrows(heap, root, i, j)
    /\ \E j \in 1..NRefs :
           /\ j # hist.via
           /\ SharesVar(heap, root, hist.via, j, hist.key)
           /\ Var_call(hist.rh, VarOf(hist.rh, Child(hist.rh, CopyRoot, j), hist.key)).val
                  = Tok("changed")

(* The (class, id) tags of a document's objects, in document order. *)
RECURSIVE Tags(_), TagsOfItems(_), TagsOfPairs(_)
Tags(json) ==
    IF json.t = "list" THEN TagsOfItems(json.items)
    ELSE IF json.t = "dict"
    THEN (IF HasKey(json.kv, "__class__") /\ HasKey(json.kv, "__id__")
          THEN << [c |-> Get(json.kv, "__class__").s, i |-> Get(json.kv, "__id__").s] >>
          ELSE <<>>) \o TagsOfPairs(json.kv)
    ELSE <<>>
TagsOfItems(items) ==
    IF Len(items) = 0 THEN <<>> ELSE Tags(Head(items)) \o TagsOfItems(Tail(items))
TagsOfPairs(kv) ==
    IF Len(kv) = 0 THEN <<>> ELSE Tags(Head(kv).v) \o TagsOfPairs(Tail(kv))

(* The ids of one class in a tag sequence, each at its first occurrence. *)
RECURSIVE FirstIds(_, _, _)
FirstIds(tags, cn, seen) ==
    IF Len(tags) = 0 THEN seen
    ELSE IF Head(tags).c = cn /\ \A n \in 1..Len(seen) : seen[n] # Head(tags).i
         THEN FirstIds(Tail(tags), cn, Append(seen, Head(tags).i))
         ELSE FirstIds(Tail(tags), cn, seen)

Written == pc \in {"written", "read", "mutated"}

(* The (class name, id) keys of the reader's table. *)
ReadTable == {e \in [c : DOMAIN hist.rrefs,
                     i : UNION {DOMAIN hist.rrefs[c] : c \in DOMAIN hist.rrefs}] :
                  e.i \in DOMAIN hist.rrefs[e.c]}

(* C6: in a write pass the ids of one class are "0", "1", ... in the      *)
(* order in which the objects are first visited, no two objects of a      *)
(* class get one id, and every object the document mentions has its one   *)
(* id; in a read pass each (class, id) of the document names one object   *)
(* of that class, two different (class, id) pairs name different objects, *)
(* also when the two ids are the same string.                             *)
C6_IdentityTable ==
    /\ Written =>
         \A cn \in DOMAIN hist.wrefs :
            LET t == hist.wrefs[cn]
                first == FirstIds(Tags(hist.json), cn, <<>>)
            IN /\ \A o1, o2 \in DOMAIN t : t[o1] = t[o2] => o1 = o2
               /\ Len(first) = Cardinality(DOMAIN t)
               /\ \A n \in 1..Len(first) : first[n] = IntStr(n - 1)
               /\ \A o \in DOMAIN t :
                      /\ Join(ClassPath(heap[o].cls), ".") = cn
                      /\ \E n \in 1..Len(first) : first[n] = t[o]
    /\ (Copied /\ ~hist.err) =>
         /\ \A e \in ReadTable :
                Join(ClassPath(hist.rh[hist.rrefs[e.c][e.i]].cls), ".") = e.c
         /\ \A e1, e2 \in ReadTable :
                hist.rrefs[e1.c][e1.i] = hist.rrefs[e2.c][e2.i] => e1 = e2
         /\ \A n \in 1..Len(Tags(hist.json)) :
                LET g == Tags(hist.json)[n]
                IN g.c \in DOMAIN hist.rrefs /\ g.i \in DOMAIN hist.rrefs[g.c]

(* A document read back in which a class has several ids and two classes  *)
(* both use the id "0" for different objects.                             *)
C6_Witness ==
    /\ pc = "read"
    /\ ~hist.err
    /\ \E cn \in DOMAIN hist.wrefs : Cardinality(DOMAIN hist.wrefs[cn]) >= 6
    /\ \E c1, c2 \in DOMAIN hist.rrefs :
           /\ c1 # c2
           /\ IntStr(0) \in DOMAIN hist.rrefs[c1] \cap DOMAIN hist.rrefs[c2]
           /\ hist.rrefs[c1][IntStr(0)] # hist.rrefs[c2][IntStr(0)]

----------------------------------------------------------------------------
(* Properties of the runs, checked under Spec.                             *)

IsPrefix(s, t) == Len(s) <= Len(t) /\ \A n \in 1..Len(s) : s[n] = t[n]
Rev(s) == [n \in 1..Len(s) |-> s[Len(s) + 1 - n]]

InProcess == root # 0 /\ pc \notin {"idle"}
Finished(how) == pc = "done" /\ hist.outcome = how

(* The names of the children the root's Reference fields own, in the      *)
(* order in which the constructor declares the fields.                    *)
Declared ==
    LET owning == SelectSeq([i \in 1..NRefs |-> i], LAMBDA i : Owns(heap, root, i))
    IN [n \in 1..Len(owning) |-> ChildName(owning[n])]

(* C1: the default up invokes up on the owned children in declaration     *)
(* order, the default down invokes down on them in the reverse order, and *)
(* a down run that follows a completed up run of the same graph invokes   *)
(* down in exactly the reverse of that run's up sequence.                 *)
C1_UpInOrderDownReversed ==
    InProcess =>
        /\ IsPrefix(hist.upSeq, Declared)
        /\ IsPrefix(hist.downSeq, Rev(Declared))
        /\ (verb = "up" /\ Finished("ok")) => hist.upSeq = Declared
        /\ (verb = "down" /\ Finished("ok")) => hist.downSeq = Rev(Declared)
        /\ (verb = "down" /\ Finished("ok") /\ hist.prev.verb = "up"
                /\ hist.prev.outcome = "ok") => hist.downSeq = Rev(hist.prev.upSeq)

(* A completed down run over NRefs children after a completed up run. *)
C1_Witness ==
    /\ verb = "down" /\ Finished("ok")
    /\ hist.prev.verb = "up" /\ hist.prev.outcome = "ok"
    /\ Len(hist.downSeq) = NRefs
    /\ NRefs >= 2

(* C2: every Phase that is left has made exactly one save call by then:   *)
(* the saves of a run are its phase exits, plus one while the top phase   *)
(* has saved and not yet left; every phase entered is left by the time    *)
(* the run ends, however its body ended.                                  *)
C2_OneSavePerExit ==
    InProcess =>
        /\ hist.entered = hist.exits + Len(phases)
        /\ hist.saves = hist.exits
                         + (IF Len(phases) > 0 /\ Top(phases).saved THEN 1 ELSE 0)
        /\ pc = "done" => (Len(phases) = 0 /\ hist.saves = hist.entered)

(* A run that ended with an external failure after leaving three phases. *)
C2_Witness ==
    /\ pc = "done"
    /\ exc = "external"
    /\ hist.exits >= 3
    /\ hist.saves = hist.exits

Realized(h, r) ==
    IF h[r].cls = SecurityGroupClass
    THEN Var_bool(h, VarOf(h, r, "description"))
             => Var_bool(h, VarOf(h, r, "ec2_security_group_id"))
    ELSE IF h[r].cls = PublicIpClass
    THEN Var_bool(h, VarOf(h, r, "ec2_allocation_id")) /\ Var_bool(h, VarOf(h, r, "ip_address"))
    ELSE TRUE

(* What the state file holds of the children before position k: each is   *)
(* there, realized, and as it stood when its up returned.                 *)
FileReflects(k) ==
    /\ IsComplete(fs[FileName])
    /\ LET R == ReadRoot(fs[FileName].doc)
           kept == order_of_operations(R.h, R.val.o)
       IN /\ ~R.err
          /\ Len(kept) = Len(ops)
          /\ \A j \in 1..(k - 1) :
                 /\ Realized(R.h, kept[j])
                 /\ WriteObject(R.h, kept[j], EmptyTable).json = hist.snap[j]

UpFailed == verb = "up" /\ hist.failIdx > 0

(* C3: once the up of child k has raised an external failure, the failure *)
(* stays in flight until it reaches the caller and up is invoked on no    *)
(* later child; each phase open at that moment, from the                  *)
(* innermost to the root, saves before the failure leaves it; and when    *)
(* the failure has reached the caller the state file holds the children   *)
(* before k realized, as they stood when their up returned.               *)
C3_FailureCheckpointsProgress ==
    UpFailed =>
        /\ exc = "external"
        /\ hist.upSeq = SubSeq(Declared, 1, hist.failIdx)
        /\ Len(hist.snap) = hist.failIdx - 1
        /\ hist.unwound + Len(phases)
              - (IF Len(phases) > 0 /\ Top(phases).saved THEN 1 ELSE 0) = hist.failDepth
        /\ pc = "done" => (hist.unwound = hist.failDepth /\ FileReflects(hist.failIdx))

(* The failure of the second of three children has reached the caller. *)
C3_Witness ==
    /\ UpFailed
    /\ pc = "done"
    /\ hist.failIdx = 2
    /\ Len(Declared) = NRefs
    /\ hist.unwound >= 2
    /\ runs = 1

Saving == sv.step \in {"open", "writing", "written"}

(* C4, checked under SpecCrash: <path> always holds a complete document;  *)
(* from the first statement of a save until its rename, and after a kill  *)
(* anywhere in between, it holds what it held when the save began; after  *)
(* the rename it holds what <path>.next held, the complete serialization  *)
(* of the graph being saved.                                              *)
C4_SaveIsAtomic ==
    /\ IsComplete(fs[FileName])
    /\ (Saving \/ sv.step = "killed") => fs[FileName] = sv.before
    /\ sv.step = "written" =>
           fs[NextFileName(FileName)] = Complete(WriteRoot(heap, root).json)
    /\ sv.step = "renamed" =>
           /\ fs[FileName] = sv.next
           /\ fs[FileName] = Complete(WriteRoot(heap, root).json)

(* Killed after <path>.next was written in full and before the rename,    *)
(* with <path>.next holding a document other than the one in <path>.      *)
C4_Witness ==
    /\ sv.step = "killed"
    /\ IsComplete(fs[NextFileName(FileName)])
    /\ fs[NextFileName(FileName)].doc # fs[FileName].doc
    /\ fs[FileName] = sv.before

(* C7: between two completed downs of a resource, however often up is     *)
(* called on it, the cloud accepts at most one create call for it.        *)
C7_UpTwiceCreatesOnce == \A n \in ChildNames : world[n] <= 1

(* C8: in an up run that follows an up run which failed at child k, no    *)
(* create call is made for a child before k, and a run that completes     *)
(* has invoked up on the children in declaration order.                   *)
C8_SecondRunResumes ==
    (InProcess /\ verb = "up" /\ hist.prev.verb = "up" /\ hist.prev.failIdx > 0) =>
        /\ \A n \in 1..Len(hist.effects) : \A j \in 1..(hist.prev.failIdx - 1) :
               hist.effects[n] # hist.prev.upSeq[j]
        /\ Finished("ok") => hist.upSeq = Declared

Unresolved == {i \in 1..NRefs : Ref_bool(heap, Field(heap, root, i)) = "false"}

(* C9: when the missing-configuration failure is raised, elaborate has    *)
(* visited every Reference field of the resource and has recorded a       *)
(* missing entry for each field that does not resolve.                    *)
C9_MissingAggregated ==
    (InProcess /\ exc = "missing") =>
        /\ hist.visited = NRefs
        /\ hist.missing = Cardinality(Unresolved)

Flagged == hist.missing > 0

C10_State ==
    InProcess =>
        /\ (Len(phases) > 0 /\ Top(phases).has_error /\ ~Top(phases).saved) => exc = "none"
        /\ exc = "missing" => Flagged
        /\ Flagged => pc \in {"exit", "done"}
        /\ (Flagged /\ pc = "done") => (hist.outcome = "raised" /\ exc = "missing")

C10_Step ==
    (exc # "missing" /\ exc' = "missing") =>
        /\ pc = "exit"
        /\ Top(phases).has_error
        /\ Top(phases).saved
        /\ fs[FileName] = Complete(WriteRoot(heap, root).json)
        /\ hist'.exits = hist.exits + 1

(* C10: Phase.missing sets the flag and raises nothing; the flag becomes  *)
(* the raised failure only in the step that leaves the flagged phase,     *)
(* after that phase's save has written the state file; from the flagging  *)
(* on the run only leaves phases, and it ends raising the failure.        *)
C10_MissingRaisedAtExit == []C10_State /\ [][C10_Step]_vars

(* A run ended by the missing-configuration failure, the flagged phase    *)
(* and the root phase having both saved.                                  *)
C10_Witness ==
    /\ pc = "done"
    /\ exc = "missing"
    /\ hist.outcome = "raised"
    /\ hist.missing = 1
    /\ hist.saves = 2

(* The children whose up or down the run has begun, in order. *)
Begun == IF verb = "up" THEN hist.upSeq ELSE hist.downSeq

(* C20: each child is processed inside a phase of its own, whose save      *)
(* comes after the child's up or down has returned (or raised) and before  *)
(* the up or down of the next child begins: the children checkpointed are  *)
(* always those begun, in order, all but at most the one in process; a     *)
(* run that completes over n children has written n such checkpoints, and  *)
(* at least n saves in all.                                                *)
C20_CheckpointPerChild ==
    InProcess =>
        /\ IsPrefix(hist.ckpt, Begun)
        /\ Len(Begun) <= Len(hist.ckpt) + 1
        /\ pc \in {"up_body", "down_body"} => Len(hist.ckpt) = Len(Begun)
        /\ (Len(Begun) = Len(hist.ckpt) + 1) =>
              (pc \in {"method_body", "exit"} /\ Len(phases) >= 2)
        /\ Finished("ok") =>
              /\ Len(hist.ckpt) = Len(ops)
              /\ hist.ckpt = [n \in 1..Len(ops) |-> NameOf(heap, ops[n])]
              /\ hist.saves >= Len(ops)

(* A completed up run over NRefs children, each checkpointed in turn. *)
C20_Witness ==
    /\ Finished("ok")
    /\ verb = "up"
    /\ Len(ops) = NRefs
    /\ Len(hist.ckpt) = NRefs
    /\ hist.saves >= NRefs

----------------------------------------------------------------------------
(* Runs on graphs in which a Reference that owns a child is afterwards     *)
(* bound to a sibling field with Ref.borrow: every field owns a leaf and   *)
(* the fields of lent then borrow from their lender.                       *)

RECURSIVE BorrowAll(_, _, _, _)
BorrowAll(h, r, lent, i) ==
    IF i > Len(RefFields(h, r)) THEN h
    ELSE IF i \in lent
         THEN BorrowAll(Ref_borrow(h, RefFields(h, r)[i], RefFields(h, r)[Lender(i)]),
                        r, lent, i + 1)
         ELSE BorrowAll(h, r, lent, i + 1)

InitBorrow ==
    \E bind \in [1..NRefs -> {"PublicIp", "Method"}] :
      \E lent \in SUBSET (1..NRefs) :
        LET g == BuildGraph(bind)
            h == BorrowAll(g.h, g.o, lent, 1)
        IN /\ lent # {}
           /\ heap = h
           /\ root = g.o
           /\ fs = [f \in FileNames |->
                      IF f = FileName THEN Complete(WriteRoot(h, g.o).json) ELSE Absent]
           /\ pc = "idle"
           /\ phases = <<>>
           /\ ops = <<>>
           /\ idx = 1
           /\ exc = "none"
           /\ verb = "none"
           /\ runs = 0
           /\ world = [n \in ChildNames |-> 0]
           /\ hist = NewHist(NoRun)
           /\ sv = NoSave

SpecBorrow == InitBorrow /\ [][Next]_vars

(* The Reference has been bound to another Reference by borrow. *)
Aliased(h, f) == ~IsNone(getattr(h, f, "_owner"))

Invoked == {hist.upSeq[n] : n \in 1..Len(hist.upSeq)} \cup
           {hist.downSeq[n] : n \in 1..Len(hist.downSeq)}

(* C11: for every Reference field of the root that has been bound with    *)
(* borrow, the default up and the default down invoke up or down on no    *)
(* resource reached through that field's own resource slot.               *)
C11_AliasedNotDriven ==
    InProcess =>
        \A i \in 1..NRefs :
            (Aliased(heap, Field(heap, root, i)) /\ Owns(heap, root, i)) =>
                NameOf(heap, Child(heap, root, i)) \notin Invoked

----------------------------------------------------------------------------
(* The References of one holder under any sequence of Ref.resolve (with    *)
(* and without a generator), Ref.own and Ref.borrow calls.                 *)

MaxOps == 4         \* calls made on the References

NoOp == [name |-> "none", ref |-> 0, generator |-> "none", bound |-> FALSE]

InitRef ==
    LET n == NewAggregate(<<>>, SomePath(<<<<"root">>>>))
    IN /\ heap = n.h
       /\ root = n.o
       /\ fs = [f \in FileNames |-> Absent]
       /\ pc = "ref"
       /\ phases = <<>>
       /\ ops = <<>>
       /\ idx = 0
       /\ exc = "none"
       /\ verb = "ref"
       /\ runs = 0
       /\ world = [c \in ChildNames |-> 0]
       /\ hist = [made |-> [i \in 1..NRefs |-> 0], op |-> NoOp]
       /\ sv = NoSave

(* The Reference holds a resource or is bound to another Reference. *)
Bound(h, f) == ~IsNone(getattr(h, f, "_resource")) \/ ~IsNone(getattr(h, f, "_owner"))

RefOp(name, i, generator, h, calls) ==
    /\ pc = "ref"
    /\ idx < MaxOps
    /\ idx' = idx + 1
    /\ heap' = h
    /\ hist' = [made |-> [hist.made EXCEPT ![i] = @ + calls],
                op |-> [name |-> name, ref |-> i, generator |-> generator,
                        bound |-> Bound(heap, Field(heap, root, i))]]
    /\ UNCHANGED <<root, fs, pc, phases, ops, exc, verb, runs, world, sv>>

(* field.resolve(phase, generator) *)
RefResolve(i, generator) ==
    LET r == Ref_resolve_generator(heap, Field(heap, root, i), generator)
    IN RefOp("resolve", i, generator, r.h, r.calls)

(* field.own(SecurityGroup(path)) *)
RefOwn(i) ==
    LET n == NewSecurityGroup(heap, ChildPath(i))
    IN RefOp("own", i, "none", Ref_own(n.h, Field(heap, root, i), n.o), 0)

(* field.borrow(other field) *)
RefBorrow(i, j) ==
    /\ i # j
    /\ RefOp("borrow", i, "none",
             Ref_borrow(heap, Field(heap, root, i), Field(heap, root, j)), 0)

NextRef ==
    \/ \E i \in 1..NRefs : \E generator \in {"none", "PublicIp"} : RefResolve(i, generator)
    \/ \E i \in 1..NRefs : RefOwn(i)
    \/ \E i, j \in 1..NRefs : RefBorrow(i, j)

SpecRef == InitRef /\ [][NextRef]_vars

(* C12: after any sequence of resolve, own and borrow calls no Reference   *)
(* holds an owned resource and an alias at the same time (so a borrow on   *)
(* an Owned Reference leaves it without its owned resource).               *)
C12_OneStateAtATime ==
    pc = "ref" =>
        \A i \in 1..NRefs :
            ~(Owns(heap, root, i) /\ Aliased(heap, Field(heap, root, i)))

(* The alias chains: sequences of fields, each borrowed from the next, the *)
(* last one borrowed from nobody.                                          *)
Chains ==
    {p \in UNION {[1..k -> 1..NRefs] : k \in 1..NRefs} :
        /\ \A n \in 1..(Len(p) - 1) :
              getattr(heap, Field(heap, root, p[n]), "_owner") =
                  Ptr(Field(heap, root, p[n + 1]))
        /\ ~Aliased(heap, Field(heap, root, p[Len(p)]))}

(* C13: dereferencing a Reference whose alias chain (of any length, zero   *)
(* for a Reference that is not Aliased) ends at a field that holds a       *)
(* resource returns that resource; when the chain ends at an Unbound field *)
(* it fails with "reference is not connected".                             *)
C13_DerefFollowsChain ==
    pc = "ref" =>
        \A p \in Chains :
            Ref_call(heap, Field(heap, root, p[1])) =
                IF Owns(heap, root, p[Len(p)])
                THEN Ptr(Child(heap, root, p[Len(p)]))
                ELSE NotConnected

(* A chain of two aliases ending at an Owned field, and one ending at an   *)
(* Unbound field.                                                          *)
C13_Witness ==
    /\ pc = "ref"
    /\ \E p \in Chains : Len(p) = 3 /\ Owns(heap, root, p[3])
                         /\ Ref_call(heap, Field(heap, root, p[1])) = Ptr(Child(heap, root, p[3]))

(* C14: the truthiness of a Reference is that of the field its alias chain *)
(* ends at: false when that field is Unbound, true when it holds a         *)
(* resource; and when b has borrowed a and a is Owned, bool(b) is true and *)
(* b() is the very object a() returns.                                     *)
C14_TruthinessFollowsChain ==
    pc = "ref" =>
        /\ \A p \in Chains :
              Ref_bool(heap, Field(heap, root, p[1])) =
                  IF Owns(heap, root, p[Len(p)]) THEN "true" ELSE "false"
        /\ \A a, b \in 1..NRefs :
              (/\ getattr(heap, Field(heap, root, b), "_owner") = Ptr(Field(heap, root, a))
               /\ Owns(heap, root, a)
               /\ ~Aliased(heap, Field(heap, root, a))) =>
                  /\ Ref_bool(heap, Field(heap, root, b)) = "true"
                  /\ IsPtr(Ref_call(heap, Field(heap, root, b)))
                  /\ Ref_call(heap, Field(heap, root, b)) = Ref_call(heap, Field(heap, root, a))

(* b borrowed a while a was Unbound (bool(b) false then), and a has just   *)
(* become Owned.                                                           *)
C14_Witness ==
    /\ pc = "ref"
    /\ hist.op.name \in {"own", "resolve"}
    /\ ~hist.op.bound
    /\ \E b \in 1..NRefs :
          /\ b # hist.op.ref
          /\ ~Owns(heap, root, b)
          /\ getattr(heap, Field(heap, root, b), "_owner") = Ptr(Field(heap, root, hist.op.ref))
          /\ Ref_bool(heap, Field(heap, root, b)) = "true"

C15_State == pc = "ref" => \A i \in 1..NRefs : hist.made[i] <= 1

C15_Step ==
    (pc = "ref" /\ hist'.op.name = "resolve" /\ Bound(heap, Field(heap, root, hist'.op.ref))) =>
        /\ heap' = heap
        /\ hist'.made = hist.made

(* C15: a resolve call on a Reference that is already bound (it holds a    *)
(* resource or an alias) calls no factory and changes nothing; over any    *)
(* sequence of calls the factory is called at most once per Reference.     *)
C15_ResolveBoundIsNoOp == []C15_State /\ [][C15_Step]_vars

(* A resolve with a factory on a Reference whose resource an earlier       *)
(* resolve has made.                                                       *)
C15_Witness ==
    /\ pc = "ref"
    /\ hist.op.name = "resolve"
    /\ hist.op.generator # "none"
    /\ hist.op.bound
    /\ hist.made[hist.op.ref] = 1

----------------------------------------------------------------------------
(* One Configuration Variable under any sequence of select, read (call),   *)
(* clear and truthiness calls, its default being replaced in between.      *)

NoVarOp == [op |-> "none", val |-> NoneV, err |-> FALSE, ever |-> FALSE,
            since |-> FALSE, adopted |-> NoneV, reads |-> 0]

InitVar ==
    \E default \in {NoneV, Tok("D")} :
        LET n == NewVar(<<>>, NoneV, "v", default)
        IN /\ heap = n.h
           /\ root = n.o
           /\ fs = [f \in FileNames |-> Absent]
           /\ pc = "var"
           /\ phases = <<>>
           /\ ops = <<>>
           /\ idx = 0
           /\ exc = "none"
           /\ verb = "var"
           /\ runs = 0
           /\ world = [c \in ChildNames |-> 0]
           /\ hist = NoVarOp
           /\ sv = NoSave

VarOp(h, hh) ==
    /\ pc = "var"
    /\ idx < MaxOps
    /\ idx' = idx + 1
    /\ heap' = h
    /\ hist' = hh
    /\ UNCHANGED <<root, fs, pc, phases, ops, exc, verb, runs, world, sv>>

(* var.select(value) *)
VarSelect(value) ==
    VarOp(Var_select(heap, root, value),
          [hist EXCEPT !.op = "select", !.val = NoneV, !.err = FALSE, !.ever = TRUE,
                       !.since = TRUE, !.adopted = NoneV, !.reads = 0])

(* var(): the value read or the failure, and, for a read that finds no     *)
(* selection, the default it finds.                                        *)
VarRead ==
    LET c == Var_call(heap, root)
        first == IsNone(getattr(heap, root, "_selected"))
    IN VarOp(c.h,
             [hist EXCEPT !.op = "read", !.val = c.val, !.err = c.err,
                          !.ever = @ \/ ~c.err, !.since = @ \/ ~c.err,
                          !.adopted = IF first THEN getattr(heap, root, "_default") ELSE @,
                          !.reads = IF first THEN 1 ELSE @ + 1])

(* var.clear() *)
VarClear ==
    VarOp(Var_clear(heap, root),
          [hist EXCEPT !.op = "clear", !.val = NoneV, !.err = FALSE, !.since = FALSE,
                       !.adopted = NoneV, !.reads = 0])

(* bool(var) *)
VarBool ==
    VarOp(Var_bool_effect(heap, root),
          [hist EXCEPT !.op = "bool", !.val = BoolV(Var_bool(heap, root)), !.err = FALSE])

(* var._default = value, as JSONReader.inline assigns it *)
VarDefault(value) ==
    VarOp(setattr(heap, root, "_default", value),
          [hist EXCEPT !.op = "default", !.val = NoneV, !.err = FALSE])

NextVar ==
    \/ \E value \in {Tok("x"), Tok("y")} : VarSelect(value)
    \/ VarRead
    \/ VarClear
    \/ VarBool
    \/ \E value \in {Tok("D"), Tok("E")} : VarDefault(value)

SpecVar == InitVar /\ [][NextVar]_vars

Selected == getattr(heap, root, "_selected")
Default == getattr(heap, root, "_default")

(* C16: a variable with a default that has never been selected or read is  *)
(* falsy; the read that finds it so returns the default and leaves it      *)
(* truthy, and every later read (no select or clear in between) returns    *)
(* the value that read adopted, whatever the default has become.           *)
C16_DefaultAdoptedOnce ==
    pc = "var" =>
        /\ ~hist.ever => ~Var_bool(heap, root)
        /\ ~IsNone(hist.adopted) =>
              /\ Var_bool(heap, root)
              /\ Selected = hist.adopted
              /\ hist.op = "read" => (~hist.err /\ hist.val = hist.adopted)

(* A second read after the default was replaced: it returns the value the  *)
(* first read adopted, not the default of the moment.                      *)
C16_Witness ==
    /\ pc = "var"
    /\ hist.op = "read"
    /\ hist.reads = 2
    /\ hist.adopted = Tok("D")
    /\ Default = Tok("E")
    /\ hist.val = Tok("D")

(* C17 as stated: the variable is truthy exactly when a value has been     *)
(* selected or successfully read at least once.                            *)
C17_TruthyIffEverSet ==
    pc = "var" => (Var_bool(heap, root) <=> hist.ever)

(* C17 amended: the variable is truthy exactly when a value has been       *)
(* selected or successfully read since the last clear (since construction  *)
(* when it was never cleared).                                             *)
C17_TruthyIffSetSinceClear ==
    pc = "var" => (Var_bool(heap, root) <=> hist.since)

(* A variable cleared after a value had been selected or read. *)
C17_Witness ==
    /\ pc = "var"
    /\ hist.op = "clear"
    /\ hist.ever
    /\ ~Var_bool(heap, root)

C18_Step ==
    (pc = "var" /\ hist'.op = "bool") =>
        /\ heap' = heap
        /\ hist'.val = BoolV(~IsNone(Selected))
        /\ (IsNone(Selected) /\ ~IsNone(Default)) => hist'.val = BoolV(FALSE)

(* C18: taking the truthiness of a variable changes nothing of it and      *)
(* answers whether a value is selected; a default-only variable stays      *)
(* default-only and answers false.                                         *)
C18_TruthinessHasNoEffect == [][C18_Step]_vars

(* The truthiness of a default-only variable has just been taken. *)
C18_Witness ==
    /\ pc = "var"
    /\ hist.op = "bool"
    /\ hist.val = BoolV(FALSE)
    /\ IsNone(Selected)
    /\ ~IsNone(Default)

C19_Step ==
    (pc = "var" /\ hist'.op = "read") =>
        IF ~IsNone(Selected)
        THEN hist'.val = Selected /\ ~hist'.err /\ heap' = heap
        ELSE IF ~IsNone(Default)
        THEN /\ hist'.val = Default /\ ~hist'.err
             /\ heap' = setattr(heap, root, "_selected", Default)
        ELSE hist'.err /\ heap' = heap

(* C19: a read returns the selected value when there is one, whatever the  *)
(* default; otherwise it makes the default the selected value and returns  *)
(* it; with neither it fails and leaves the variable as it was.            *)
C19_ReadPrefersSelected == [][C19_Step]_vars

(* A read that returned the selected value although a different default    *)
(* was present.                                                            *)
C19_Witness ==
    /\ pc = "var"
    /\ hist.op = "read"
    /\ hist.val = Tok("x")
    /\ Default = Tok("D")
    /\ IsNone(hist.adopted)

----------------------------------------------------------------------------
(* Runs on graphs in which two Reference fields own the same child: every  *)
(* field owns a leaf, and one field is then given its lender's child with  *)
(* Ref.own.                                                                *)

InitShare ==
    \E bind \in [1..NRefs -> {"PublicIp", "Method"}] :
      \E i \in 1..NRefs :
        LET g == BuildGraph(bind)
            h == Ref_own(g.h, Field(g.h, g.o, i), Child(g.h, g.o, Lender(i)))
        IN /\ heap = h
           /\ root = g.o
           /\ fs = [f \in FileNames |->
                      IF f = FileName THEN Complete(WriteRoot(h, g.o).json) ELSE Absent]
           /\ pc = "idle"
           /\ phases = <<>>
           /\ ops = <<>>
           /\ idx = 1
           /\ exc = "none"
           /\ verb = "none"
           /\ runs = 0
           /\ world = [n \in ChildNames |-> 0]
           /\ hist = NewHist(NoRun)
           /\ sv = NoSave

SpecShare == InitShare /\ [][Next]_vars

NoRepeat(s) == \A m, n \in 1..Len(s) : s[m] = s[n] => m = n

(* C21: order_of_operations holds each owned child once, in declaration    *)
(* order, also when two fields own the same child, so one pass of the      *)
(* default up or down invokes each child's up or down once.                *)
C21_EachChildOnce ==
    InProcess =>
        /\ NoRepeat(order_of_operations(heap, root))
        /\ NoRepeat(ops)
        /\ NoRepeat(hist.upSeq)
        /\ NoRepeat(hist.downSeq)

C23_Step ==
    (hist'.saves = hist.saves + 1) =>
        /\ IsResource(heap, Ptr(root))
        /\ fs'[FileName] = Complete(WriteRoot(heap, root).json)
        /\ Len(phases) > 0
        /\ phases[1].item = root

(* C23: every save, whichever phase makes it (the root phase, the phase of *)
(* one Reference in elaborate, the phase of one child in up or down, a     *)
(* child's own sub-phase), leaves in the state file the serialization of   *)
(* the whole graph under the root the persistor was built on.              *)
C23_SaveWritesRootGraph == [][C23_Step]_vars

(* The phase of one child of an up run has saved, and the file holds the   *)
(* root's serialization, not the child's.                                  *)
C23_Witness ==
    /\ pc = "exit"
    /\ Len(phases) = 2
    /\ Top(phases).kind = "up"
    /\ Top(phases).saved
    /\ Top(phases).item # root
    /\ fs[FileName] = Complete(WriteRoot(heap, root).json)
    /\ fs[FileName] # Complete(WriteRoot(heap, Top(phases).item).json)

----------------------------------------------------------------------------
(* git.GitDeploy, and one leaf resource driven directly: up and down are   *)
(* called on it in any order, each call followed by the save of the phase  *)
(* it ran in.                                                              *)

GitDeployClass == <<"cluster_control", "git", "GitDeploy">>
GithubDeployKeyClass == <<"cluster_control", "git", "GithubDeployKey">>

(* git.GitDeploy.__init__ *)
NewGitDeploy(h, path) ==
    LET nr == NewResource(h, GitDeployClass, path)
        h1 == AddVar(nr.h, nr.o, "owner", NoneV)
        h2 == AddVar(h1, nr.o, "repo", NoneV)
        h3 == AddVar(h2, nr.o, "is_installed", NoneV)
        h4 == AddRef(h3, nr.o, "instance")
        h5 == AddRef(h4, nr.o, "deploy_key")
    IN [h |-> h5, o |-> nr.o]

(* bool(self.name) *)
HasName(h, r) == ~IsNone(getattr(h, r, "name")) /\ Len(getattr(h, r, "name").s) > 0

(* git.GitDeploy.upload_key: the phase description dereferences deploy_key *)
(* before the sub-phase is entered; deploy_key.put() is external call 1.   *)
GitDeploy_upload_key(h, r, failAt) ==
    IF ~IsPtr(Ref_call(h, VarOf(h, r, "deploy_key"))) THEN [exc |-> "config", subs |-> 0]
    ELSE [exc |-> IF failAt = 1 THEN "external" ELSE "none", subs |-> 1]

(* The already-installed test of GitDeploy.up:                             *)
(* self.is_installed and self.is_installed                                 *)
GitDeploy_up_guard(h, v) == Var_bool(h, v) /\ Var_bool(h, v)

(* git.GitDeploy.up, after super().up(phase) found no owned child: the     *)
(* heap afterwards, the clones made, the exception raised and the          *)
(* sub-phases entered.  The three instance.execute calls are call 2.       *)
GitDeploy_up(h, r, failAt) ==
    IF GitDeploy_up_guard(h, VarOf(h, r, "is_installed"))
    THEN [h |-> h, created |-> 0, exc |-> "none", subs |-> 0]
    ELSE IF ~HasName(h, r) THEN [h |-> h, created |-> 0, exc |-> "config", subs |-> 0]
    ELSE LET k == GitDeploy_upload_key(h, r, failAt)
         IN IF k.exc # "none" THEN [h |-> h, created |-> 0, exc |-> k.exc, subs |-> k.subs]
            ELSE IF ~IsPtr(Ref_call(h, VarOf(h, r, "instance")))
            THEN [h |-> h, created |-> 0, exc |-> "config", subs |-> k.subs]
            ELSE LET c == ReadVars(h, r, <<"repo", "owner">>)
                 IN IF c.err THEN [h |-> c.h, created |-> 0, exc |-> "config", subs |-> 2]
                    ELSE IF failAt = 2
                    THEN [h |-> c.h, created |-> 0, exc |-> "external", subs |-> 2]
                    ELSE [h |-> Var_select(c.h, VarOf(h, r, "is_installed"), BoolV(TRUE)),
                          created |-> 1, exc |-> "none", subs |-> 2]

(* git.GitDeploy.down: instance.execute is external call 1. *)
GitDeploy_down(h, r, failAt) ==
    IF ~HasName(h, r) THEN [h |-> h, deleted |-> 0, exc |-> "config", subs |-> 0]
    ELSE IF ~Var_bool(h, VarOf(h, r, "is_installed"))
    THEN [h |-> h, deleted |-> 0, exc |-> "none", subs |-> 0]
    ELSE IF ~IsPtr(Ref_call(h, VarOf(h, r, "instance")))
    THEN [h |-> h, deleted |-> 0, exc |-> "config", subs |-> 0]
    ELSE LET c == ReadVars(h, r, <<"repo">>)
         IN IF c.err THEN [h |-> c.h, deleted |-> 0, exc |-> "config", subs |-> 1]
            ELSE IF failAt = 1
            THEN [h |-> c.h, deleted |-> 0, exc |-> "external", subs |-> 1]
            ELSE [h |-> Var_select(c.h, VarOf(h, r, "is_installed"), BoolV(FALSE)),
                  deleted |-> 1, exc |-> "none", subs |-> 1]

ReupKinds == {"SecurityGroup", "PublicIp", "GitDeploy"}

(* A GitDeploy as ManageInstance.elaborate wires it: its References        *)
(* borrowed from References that own the instance and the deploy key.      *)
WiredGitDeploy(configured) ==
    LET n == NewGitDeploy(<<>>, SomePath(<<<<"deploy">>>>))
        li == NewRef(n.h, NoneV, "instance")
        i == NewResource(li.h, InstanceClass, SomePath(<<<<"instance">>>>))
        lk == NewRef(Ref_own(i.h, li.o, i.o), NoneV, "deploy_key")
        k == NewResource(lk.h, GithubDeployKeyClass, SomePath(<<<<"key">>>>))
        h1 == Ref_own(k.h, lk.o, k.o)
        h2 == Ref_borrow(h1, VarOf(h1, n.o, "instance"), li.o)
        h3 == Ref_borrow(h2, VarOf(h2, n.o, "deploy_key"), lk.o)
    IN [h |-> IF configured THEN SelectAll(h3, n.o, <<"owner", "repo">>) ELSE h3,
        o |-> n.o]

ReupResource(kind, configured) ==
    IF kind = "GitDeploy" THEN WiredGitDeploy(configured)
    ELSE IF kind = "PublicIp" THEN NewPublicIp(<<>>, SomePath(<<<<"ip">>>>))
    ELSE LET n == NewSecurityGroup(<<>>, SomePath(<<<<"sg">>>>))
         IN IF configured
            THEN [h |-> Var_select(n.h, VarOf(n.h, n.o, "description"), Tok("text")),
                  o |-> n.o]
            ELSE n

InitReup ==
    \E kind \in ReupKinds : \E configured \in BOOLEAN :
        LET n == ReupResource(kind, configured)
        IN /\ heap = n.h
           /\ root = n.o
           /\ fs = [f \in FileNames |-> Absent]
           /\ pc = "reup"
           /\ phases = <<>>
           /\ ops = <<>>
           /\ idx = 0
           /\ exc = "none"
           /\ verb = "none"
           /\ runs = 0
           /\ world = [c \in ChildNames |-> 0]
           /\ hist = [trail |-> <<>>, live |-> 0]
           /\ sv = NoSave

(* One call with its phase: the call's effect on the resource and on the   *)
(* cloud, then the save the phase makes as it exits.                       *)
ReupCall(v, h, effect, e) ==
    /\ pc = "reup"
    /\ idx < MaxOps
    /\ idx' = idx + 1
    /\ heap' = h
    /\ fs' = PersistInFile_save(fs, h, root)
    /\ exc' = e
    /\ verb' = v
    /\ hist' = [trail |-> Append(hist.trail, [verb |-> v, effect |-> effect, exc |-> e]),
                live |-> IF v = "up" THEN hist.live + effect ELSE hist.live - effect]
    /\ UNCHANGED <<root, pc, phases, ops, runs, world, sv>>

(* with Phase(...) as phase: resource.up(phase) *)
ReupUp(failAt) ==
    /\ failAt \in 0..2
    /\ LET u == IF heap[root].cls = GitDeployClass THEN GitDeploy_up(heap, root, failAt)
                ELSE Leaf_up(heap, root, failAt)
       IN ReupCall("up", u.h, u.created, u.exc)

(* with Phase(...) as phase: resource.down(phase) *)
ReupDown(failAt) ==
    /\ failAt \in 0..1
    /\ LET u == IF heap[root].cls = GitDeployClass THEN GitDeploy_down(heap, root, failAt)
                ELSE Leaf_down(heap, root, failAt)
       IN ReupCall("down", u.h, u.deleted, u.exc)

NextReup ==
    \/ \E failAt \in 0..2 : ReupUp(failAt)
    \/ \E failAt \in 0..1 : ReupDown(failAt)

SpecReup == InitReup /\ [][NextReup]_vars

Provisioned(t) == t.verb = "up" /\ t.exc = "none" /\ t.effect > 0
Released(t) == t.verb = "down" /\ t.exc = "none" /\ t.effect > 0

(* C22: a resource brought down can be brought up again: when an up that   *)
(* provisioned is followed by a down that released and then by an up that  *)
(* returns, this second up has made the provisioning calls again.          *)
C22_ReupProvisionsAgain ==
    pc = "reup" =>
        \A n \in 1..Len(hist.trail) - 2 :
            (/\ Provisioned(hist.trail[n])
             /\ Released(hist.trail[n + 1])
             /\ hist.trail[n + 2].verb = "up"
             /\ hist.trail[n + 2].exc = "none")
                => hist.trail[n + 2].effect > 0

----------------------------------------------------------------------------
(* PersistInFile.load into a root that exists already.  A process saves    *)
(* its graph, provisions a child, or starts over with a newly constructed  *)
(* root, and loads the state file into the root it holds.                  *)

(* PersistInFile.load: the heap afterwards and whether it raised. *)
PersistInFile_load(fsys, h, r) ==
    IF ~fsys[FileName].exists THEN [h |-> h, err |-> FALSE]
    ELSE IF ~IsComplete(fsys[FileName]) THEN [h |-> h, err |-> TRUE]
    ELSE LET loaded(x) == [h |-> x.h, err |-> x.err]
         IN loaded(ReadObject(fsys[FileName].doc, r,
                              [h |-> h, refs |-> EmptyTable, err |-> FALSE]))

LoadBindings == {"unbound", "alias", "PublicIp"}

InitLoad ==
    \E bind \in [1..NRefs -> LoadBindings] : \E saved \in BOOLEAN :
        LET g == BuildGraph(bind)
        IN /\ heap = g.h
           /\ root = g.o
           /\ fs = [f \in FileNames |->
                      IF saved /\ f = FileName THEN Complete(WriteRoot(g.h, g.o).json)
                      ELSE Absent]
           /\ pc = "load"
           /\ phases = <<>>
           /\ ops = <<>>
           /\ idx = 0
           /\ exc = "none"
           /\ verb = "none"
           /\ runs = 0
           /\ world = [c \in ChildNames |-> 0]
           /\ hist = [op |-> "none"]
           /\ sv = NoSave

LoadOp(name, h, r, fsys, e) ==
    /\ pc = "load"
    /\ idx < MaxOps
    /\ idx' = idx + 1
    /\ heap' = h
    /\ root' = r
    /\ fs' = fsys
    /\ exc' = e
    /\ hist' = [op |-> name]
    /\ UNCHANGED <<pc, phases, ops, verb, runs, world, sv>>

(* child.up(phase) on an owned PublicIp, the cloud accepting the call *)
LoadProvision(i) ==
    /\ Owns(heap, root, i)
    /\ LoadOp("provision", PublicIp_up(heap, Child(heap, root, i), 0).h, root, fs, "none")

(* persistor.save() *)
LoadSave == LoadOp("save", heap, root, PersistInFile_save(fs, heap, root), "none")

(* A new process: root = Aggregate(['root']) *)
LoadConstruct ==
    LET n == NewAggregate(<<>>, SomePath(<<<<"root">>>>))
    IN LoadOp("construct", n.h, n.o, fs, "none")

(* PersistInFile(file_name, root).load() *)
LoadLoad ==
    LET l == PersistInFile_load(fs, heap, root)
    IN LoadOp("load", l.h, root, fs, IF l.err THEN "load" ELSE "none")

NextLoad ==
    \/ \E i \in 1..NRefs : LoadProvision(i)
    \/ LoadSave
    \/ LoadConstruct
    \/ LoadLoad

SpecLoad == InitLoad /\ [][NextLoad]_vars

C24_Step ==
    (hist'.op = "load") =>
        /\ root' = root
        /\ exc' = "none"
        /\ ~fs[FileName].exists => heap' = heap
        /\ fs[FileName].exists =>
            /\ \A k \in DOMAIN Resource_marshal(heap, root) :
                 getattr(heap', root, Resource_marshal(heap, root)[k])
                    = getattr(heap, root, Resource_marshal(heap, root)[k])
            /\ WriteRoot(heap', root).json = fs[FileName].doc

(* C24: load hydrates in place: the root is the object it was, the Vars    *)
(* and References the root held before the load are the ones it holds      *)
(* after it, now carrying what the state file says, and with no state file *)
(* load changes nothing.                                                   *)
C24_LoadHydratesInPlace == [][C24_Step]_vars

----------------------------------------------------------------------------
(* Schema drift.  A graph is written while one of its resources is of an   *)
(* earlier version of its class, which lacks one of the fields declared    *)
(* today and declares a Var that no longer exists; the document is read    *)
(* with today's classes.                                                   *)

DriftBindings == {"unbound", "alias", "SecurityGroup", "PublicIp"}

(* The field the earlier version declared and today's class does not. *)
LegacyField == "legacy"

DriftFields == {FieldNames[i] : i \in 1..NRefs} \cup
    {"description", "ec2_name", "ec2_security_group_id", "ec2_allocation_id", "ip_address"}

Range(s) == {s[i] : i \in DOMAIN s}

(* The fields a resource declares: the Var and Ref entries of __dict__. *)
SchemaFields(h, o) == Tail(Resource_marshal(h, o))

(* resource o as the earlier version of its class built it *)
EarlierVersion(h, o, omit) ==
    LET without == [h EXCEPT ![o].d = SelectSeq(@, LAMBDA p : p.k # omit)]
    IN AddVar(without, o, LegacyField, Tok("old"))

InitDrift ==
    \E bind \in [1..NRefs -> DriftBindings] :
        LET g == BuildGraph(bind)
        IN /\ heap = g.h
           /\ root = g.o
           /\ fs = [f \in FileNames |-> Absent]
           /\ pc = "build"
           /\ phases = <<>>
           /\ ops = <<>>
           /\ idx = 0
           /\ exc = "none"
           /\ verb = "drift"
           /\ runs = 0
           /\ world = [n \in ChildNames |-> 0]
           /\ hist = [target |-> 0, omit |-> "", old |-> <<>>] @@ NoCodec
           /\ sv = NoSave

(* JSONWriter(modules, root) over the graph whose resource target is of    *)
(* the earlier version: target 0 is the root, target i the child of field i *)
DriftWrite(target, omit) ==
    /\ pc = "build"
    /\ target > 0 => Owns(heap, root, target)
    /\ LET o == IF target = 0 THEN root ELSE Child(heap, root, target)
           old == EarlierVersion(heap, o, omit)
           w == WriteRoot(old, root)
       IN /\ omit \in Range(SchemaFields(heap, o))
          /\ hist' = [hist EXCEPT !.json = w.json, !.wrefs = w.refs,
                                  !.target = target, !.omit = omit, !.old = old]
    /\ pc' = "written"
    /\ UNCHANGED <<heap, root, fs, phases, ops, idx, exc, verb, runs, world, sv>>

NextDrift ==
    \/ \E i \in 1..NRefs : \E key \in AliasKeys : SelectVar(i, key)
    \/ \E target \in 0..NRefs : \E omit \in DriftFields : DriftWrite(target, omit)
    \/ CodecRead

SpecDrift == InitDrift /\ [][NextDrift]_vars

(* A value as a document of its own. *)
Alone(h, v) == WriteValue(h, v, EmptyTable).json

DriftTarget(h, r) == IF hist.target = 0 THEN r ELSE Child(h, r, hist.target)

----------------------------------------------------------------------------
(* Resource.collect.  acc = [vars, resources, calls, err]: the two sets    *)
(* the caller passes, the resources collect was called on, in call order,  *)
(* and whether the type error was raised.                                  *)

RECURSIVE CollectItems(_, _, _, _)
(* The loop of Resource.collect from the n-th entry of self.__dict__ on. *)
CollectItems(h, r, n, acc) ==
    IF n > Len(h[r].d) \/ acc.err THEN acc
    ELSE LET value == h[r].d[n].v
         IN IF IsVar(h, value)
            THEN CollectItems(h, r, n + 1, [acc EXCEPT !.vars = @ \cup {value.o}])
            ELSE IF IsRef(h, value) /\ ~IsNone(getattr(h, value.o, "_resource"))
                    /\ getattr(h, value.o, "_resource").o \notin acc.resources
            THEN LET res == getattr(h, value.o, "_resource")
                 IN IF ~IsResource(h, res)
                    THEN [acc EXCEPT !.err = TRUE]
                    ELSE CollectItems(h, r, n + 1,
                            CollectItems(h, res.o, 1,
                                [acc EXCEPT !.resources = @ \cup {res.o},
                                            !.calls = Append(@, res.o)]))
            ELSE CollectItems(h, r, n + 1, acc)

NoCollect == [vars |-> {}, resources |-> {}, calls |-> <<>>, err |-> FALSE]

(* all_vars = set(); all_resources = set(); r.collect(all_vars, all_resources) *)
Resource_collect(h, r) == CollectItems(h, r, 1, [NoCollect EXCEPT !.calls = <<r>>])

CollectBindings == {"unbound", "alias", "SecurityGroup", "PublicIp"}

(* field i borrowed from a Reference that no resource declares and that    *)
(* owns a PublicIp                                                         *)
BorrowOutside(h, r, i) ==
    LET l == NewRef(h, NoneV, "lent")
        n == NewPublicIp(l.h, SomePath(<<<<"lent">>>>))
    IN Ref_borrow(Ref_own(n.h, l.o, n.o), Field(h, r, i), l.o)

InitCollect ==
    \E bind \in [1..NRefs -> CollectBindings] : \E outside \in 0..NRefs :
        LET g == BuildGraph(bind)
        IN /\ outside > 0 => bind[outside] = "unbound"
           /\ heap = IF outside > 0 THEN BorrowOutside(g.h, g.o, outside) ELSE g.h
           /\ root = g.o
           /\ fs = [f \in FileNames |-> Absent]
           /\ pc = "build"
           /\ phases = <<>>
           /\ ops = <<>>
           /\ idx = 0
           /\ exc = "none"
           /\ verb = "collect"
           /\ runs = 0
           /\ world = [n \in ChildNames |-> 0]
           /\ hist = NoCollect
           /\ sv = NoSave

(* field i .own(the child field j owns): one child under two References *)
OwnShared(i, j) ==
    /\ i # j
    /\ pc = "build"
    /\ Owns(heap, root, j)
    /\ IsNone(getattr(heap, Field(heap, root, i), "_owner"))
    /\ Edit(Ref_own(heap, Field(heap, root, i), Child(heap, root, j)))

(* config.collect(all_vars, all_resources) *)
Collect ==
    /\ pc = "build"
    /\ pc' = "collected"
    /\ hist' = Resource_collect(heap, root)
    /\ UNCHANGED <<heap, root, fs, phases, ops, idx, exc, verb, runs, world, sv>>

NextCollect ==
    \/ \E i, j \in 1..NRefs : \E key \in AliasKeys : AliasVar(i, j, key)
    \/ \E i, j \in 1..NRefs : OwnShared(i, j)
    \/ Collect

SpecCollect == InitCollect /\ [][NextCollect]_vars

(* The resources the Reference fields of the resources in S, and of r,     *)
(* lead to, as owner or through an alias chain.                            *)
Referred(h, r, S) ==
    {Ref_call(h, f).o : f \in {f \in UNION {Range(RefFields(h, x)) : x \in S \cup {r}} :
                                  IsPtr(Ref_call(h, f))}}

RECURSIVE ReachFrom(_, _, _)
ReachFrom(h, r, S) ==
    IF Referred(h, r, S) \subseteq S THEN S ELSE ReachFrom(h, r, S \cup Referred(h, r, S))

Reachable(h, r) == ReachFrom(h, r, {})

VarsOf(h, S) ==
    {h[x].d[n].v.o : <<x, n>> \in {p \in S \X (1..Len(h)) :
                                     p[2] <= Len(h[p[1]].d) /\ IsVar(h, h[p[1]].d[p[2]].v)}}

(* C26: collect gathers every Var and every resource that the Reference    *)
(* fields lead to from the resource it is called on, through owning and    *)
(* through aliasing References, visits no resource twice, and returns      *)
(* also when a child is held by two References.                            *)
C26_CollectGathersReachable ==
    pc = "collected" =>
        /\ ~hist.err
        /\ NoRepeat(hist.calls)
        /\ hist.resources = Reachable(heap, root)
        /\ hist.vars = VarsOf(heap, Reachable(heap, root) \cup {root})

----------------------------------------------------------------------------
(* main.Controller.__call__: the configuration is read, a flag is declared *)
(* for every collected Var, the command line is parsed, the overrides are  *)
(* applied, and the verb handler is called in the root Phase.              *)

(* Var.path: the parent's path and the Var's name *)
Var_path(h, v) ==
    IF IsNone(getattr(h, v, "_name")) THEN [err |-> TRUE, segs |-> <<>>]
    ELSE [err |-> FALSE,
          segs |-> (IF IsNone(getattr(h, v, "_parent")) THEN <<>>
                    ELSE Resource_path(h, getattr(h, v, "_parent").o))
                   \o <<getattr(h, v, "_name").s>>]

(* '-'.join(var.path()[1:]) *)
FlagName(path) == IF Len(path) = 0 THEN <<>> ELSE Join(Tail(path), "-")

(* argparse: the attribute of the namespace an option --<name> is stored   *)
(* under: the name with every '-' turned into '_'                          *)
Dest(name) == [n \in DOMAIN name |-> IF name[n] = "-" THEN "_" ELSE name[n]]

(* parser.parse_known_args over the declared flags, the command line       *)
(* giving --<flag> value: the namespace, None for the flags not given      *)
ParseArgs(declared, flag, value) ==
    [d \in {Dest(n) : n \in declared} |-> IF d = Dest(flag) THEN value ELSE NoneV]

(* The override loop: getattr(config, name).select(getattr(args, name))    *)
(* for every collected Var whose name is an attribute of the namespace     *)
(* with a value.                                                           *)
ApplyOverrides(h, r, names, args) ==
    LET hits == {n \in names : n \in DOMAIN args /\ ~IsNone(args[n])}
    IN IF hits = {} THEN [h |-> h, err |-> FALSE]
       ELSE LET n == CHOOSE n \in hits : TRUE
            IN IF Len(n) = 1 /\ hasattr(h, r, n[1]) /\ IsVar(h, getattr(h, r, n[1]))
               THEN [h |-> Var_select(h, VarOf(h, r, n[1]), args[n]), err |-> FALSE]
               ELSE [h |-> h, err |-> TRUE]

CliRoots == {"Aggregate", "SecurityGroup", "PublicIp"}
CliBindings == {"unbound", "SecurityGroup", "PublicIp", "Method"}

CliValue == Tok("given")

InitCli ==
    \E kind \in CliRoots : \E bind \in [1..NRefs -> CliBindings] :
        LET g == IF kind = "Aggregate" THEN BuildGraph(bind)
                 ELSE IF kind = "SecurityGroup"
                 THEN NewSecurityGroup(<<>>, SomePath(<<<<"root">>>>))
                 ELSE NewPublicIp(<<>>, SomePath(<<<<"root">>>>))
        IN /\ kind # "Aggregate" => \A i \in 1..NRefs : bind[i] = "unbound"
           /\ heap = g.h
           /\ root = g.o
           /\ fs = [f \in FileNames |->
                      IF f = FileName THEN Complete(WriteRoot(g.h, g.o).json) ELSE Absent]
           /\ pc = "shell"
           /\ phases = <<>>
           /\ ops = <<>>
           /\ idx = 0
           /\ exc = "none"
           /\ verb = "none"
           /\ runs = 0
           /\ world = [n \in ChildNames |-> 0]
           /\ hist = [target |-> 0, depth |-> 0, flag |-> <<>>]
           /\ sv = NoSave

(* Controller.__call__ up to persistor = PersistInFile(...), the command   *)
(* line being: <verb> -c <path> --<flag of the Var target> given           *)
CliParse(v) ==
    /\ pc = "shell"
    /\ \E r \in {ReadRoot(fs[FileName].doc)} :
       \E c \in {Resource_collect(r.h, r.val.o)} :
       \E path \in {[x \in c.vars |-> Var_path(r.h, x).segs]} :
       \E names \in {{FlagName(path[x]) : x \in c.vars} \ {<<>>}} :
       \E target \in c.vars :
       \E o \in {ApplyOverrides(r.h, r.val.o, names,
                                ParseArgs(names, FlagName(path[target]), CliValue))} :
            /\ FlagName(path[target]) # <<>>
            /\ heap' = o.h
            /\ root' = r.val.o
            /\ exc' = IF o.err THEN "attribute" ELSE "none"
            /\ pc' = IF o.err THEN "done" ELSE "parsed"
            /\ hist' = [target |-> target, depth |-> Len(path[target]) - 1,
                        flag |-> FlagName(path[target])]
    /\ verb' = v
    /\ UNCHANGED <<fs, phases, ops, idx, runs, world, sv>>

(* with Phase(..., persistor, config) as phase: self.verbs[verb](config, phase) *)
CliDispatch ==
    /\ pc = "parsed"
    /\ pc' = "dispatched"
    /\ phases' = <<NewPhase("root", root, "done")>>
    /\ UNCHANGED <<heap, root, fs, ops, idx, exc, verb, runs, world, hist, sv>>

NextCli ==
    \/ \E v \in {"up", "down"} : CliParse(v)
    \/ CliDispatch

SpecCli == InitCli /\ [][NextCli]_vars

(* C27: when the verb handler is dispatched, the Var whose flag            *)
(* --<dash-joined path without the root segment> was given on the command  *)
(* line holds the given value, at whatever depth the Var lies.             *)
C27_OverrideApplied ==
    pc = "dispatched" => getattr(heap, hist.target, "_selected") = CliValue

----------------------------------------------------------------------------
(* Resource.alias on a newly built aggregate, the keyword values being a    *)
(* Var, a Reference, a resource, or anything else.                         *)

(* str(literal) *)
StrOf(v) ==
    IF v.t = "str" THEN v.s
    ELSE IF v.t = "bool" THEN (IF v.b THEN <<"True">> ELSE <<"False">>)
    ELSE <<"None">>

Const_unselected(h, literal) ==
    [h |-> Alloc(h, Obj(VarClass, <<
            [k |-> "_parent", v |-> NoneV],
            [k |-> "_name", v |-> Str(StrOf(literal))],
            [k |-> "_default", v |-> literal],
            [k |-> "_selected", v |-> NoneV],
            [k |-> "_options", v |-> ListV(<<>>)] >>)),
     o |-> Len(h) + 1]

(* configurable.Const: Var(None, str(literal), literal).select(literal) *)
Const(h, literal) ==
    LET n == Const_unselected(h, literal)
    IN [h |-> Var_select(n.h, n.o, literal), o |-> n.o]

(* Resource.alias: the kwargs in order; the heap afterwards and whether a  *)
(* KeyError or AttributeError was raised.                                  *)
RECURSIVE Resource_alias(_, _, _)
Resource_alias(h, r, kwargs) ==
    IF Len(kwargs) = 0 THEN [h |-> h, err |-> FALSE]
    ELSE LET key == Head(kwargs).key
             value == Head(kwargs).value
         IN IF IsVar(h, value)
            THEN Resource_alias(setattr(h, r, key, value), r, Tail(kwargs))
            ELSE IF IsRef(h, value) \/ IsResource(h, value)
            THEN IF ~hasattr(h, r, key) \/ ~IsRef(h, getattr(h, r, key))
                 THEN [h |-> h, err |-> TRUE]
                 ELSE IF IsRef(h, value)
                 THEN Resource_alias(Ref_borrow(h, getattr(h, r, key).o, value.o),
                                     r, Tail(kwargs))
                 ELSE Resource_alias(Ref_own(h, getattr(h, r, key).o, value.o),
                                     r, Tail(kwargs))
            ELSE LET c == Const(h, value)
                 IN Resource_alias(setattr(c.h, r, key, Ptr(c.o)), r, Tail(kwargs))

MaxAliases == 2     \* alias calls made on the aggregate

AliasFields == {FieldNames[1], "description"}

(* The aggregate and, apart from it, a Var, a Reference owning a PublicIp  *)
(* and a SecurityGroup to pass as values.                                  *)
AliasWorld ==
    LET n == NewAggregate(<<>>, SomePath(<<<<"root">>>>))
        v == NewVar(n.h, NoneV, "shared", NoneV)
        l == NewRef(v.h, NoneV, "lent")
        p == NewPublicIp(l.h, SomePath(<<<<"lent">>>>))
        s == NewSecurityGroup(Ref_own(p.h, l.o, p.o), SomePath(<<<<"free">>>>))
    IN [h |-> s.h, o |-> n.o, var |-> Ptr(v.o), ref |-> Ptr(l.o), res |-> Ptr(s.o)]

RawValues == {Tok("text"), BoolV(TRUE), BoolV(FALSE), NoneV}
AliasValues == {AliasWorld.var, AliasWorld.ref, AliasWorld.res} \cup RawValues

(* The keyword arguments of one call: one or two distinct keys. *)
Kwargs ==
    {<<[key |-> k, value |-> v]>> : <<k, v>> \in AliasFields \X AliasValues}
    \cup {<<[key |-> k1, value |-> v1], [key |-> k2, value |-> v2]>> :
            <<k1, v1, k2, v2>> \in {q \in AliasFields \X AliasValues \X AliasFields \X RawValues :
                                      q[1] # q[3]}}

InitAlias ==
    /\ heap = AliasWorld.h
    /\ root = AliasWorld.o
    /\ fs = [f \in FileNames |-> Absent]
    /\ pc = "alias"
    /\ phases = <<>>
    /\ ops = <<>>
    /\ idx = 0
    /\ exc = "none"
    /\ verb = "none"
    /\ runs = 0
    /\ world = [n \in ChildNames |-> 0]
    /\ hist = [kwargs |-> <<>>]
    /\ sv = NoSave

(* root.alias(key=value, ...) *)
Alias(kwargs) ==
    /\ pc = "alias"
    /\ idx < MaxAliases
    /\ idx' = idx + 1
    /\ \E a \in {Resource_alias(heap, root, kwargs)} :
         /\ heap' = a.h
         /\ exc' = IF a.err THEN "attribute" ELSE "none"
    /\ hist' = [kwargs |-> kwargs]
    /\ UNCHANGED <<root, fs, pc, phases, ops, verb, runs, world, sv>>

NextAlias == \E kwargs \in Kwargs : Alias(kwargs)

SpecAlias == InitAlias /\ [][NextAlias]_vars

(* What alias has made of one keyword: the value itself for a Var, the     *)
(* field's own Reference bound to the value for a Reference or a resource, *)
(* and for another value a Var that is truthy and reads as the value.      *)
BoundByKind(h, h2, r, kw) ==
    IF IsVar(h, kw.value) THEN getattr(h2, r, kw.key) = kw.value
    ELSE IF IsRef(h, kw.value)
    THEN /\ getattr(h2, r, kw.key) = getattr(h, r, kw.key)
         /\ getattr(h2, getattr(h2, r, kw.key).o, "_owner") = kw.value
    ELSE IF IsResource(h, kw.value)
    THEN /\ getattr(h2, r, kw.key) = getattr(h, r, kw.key)
         /\ getattr(h2, getattr(h2, r, kw.key).o, "_resource") = kw.value
    ELSE /\ IsVar(h2, getattr(h2, r, kw.key))
         /\ Var_bool(h2, getattr(h2, r, kw.key).o)
         /\ ~Var_call(h2, getattr(h2, r, kw.key).o).err
         /\ Var_call(h2, getattr(h2, r, kw.key).o).val = kw.value

C28_StepAny ==
    (idx' = idx + 1 /\ exc' = "none") =>
        \A n \in DOMAIN hist'.kwargs : BoundByKind(heap, heap', root, hist'.kwargs[n])

(* C28 as stated: alias binds every keyword by the kind of its value, any  *)
(* value that is no Var, Reference or resource becoming a Var that is      *)
(* truthy and reads back as the value.                                     *)
C28_AliasBindsEveryValue == [][C28_StepAny]_vars

C28_Step ==
    (idx' = idx + 1 /\ exc' = "none") =>
        \A n \in DOMAIN hist'.kwargs :
            \/ BoundByKind(heap, heap', root, hist'.kwargs[n])
            \/ /\ IsNone(hist'.kwargs[n].value)
               /\ IsVar(heap', getattr(heap', root, hist'.kwargs[n].key))
               /\ ~Var_bool(heap', getattr(heap', root, hist'.kwargs[n].key).o)

(* C28, amended: alias binds every keyword by the kind of its value; a     *)
(* value that is no Var, Reference or resource and is not None becomes a   *)
(* Var that is truthy and reads back as the value, and None becomes a Var  *)
(* that is not truthy.                                                     *)
C28_AliasBindsByKind == [][C28_Step]_vars

(* The aggregate after alias(a=<Reference>, description=False). *)
C28_Witness ==
    /\ pc = "alias"
    /\ Len(hist.kwargs) = 2
    /\ exc = "none"
    /\ hist.kwargs[1].value = AliasWorld.ref
    /\ getattr(heap, getattr(heap, root, hist.kwargs[1].key).o, "_owner") = AliasWorld.ref
    /\ hist.kwargs[2].value = BoolV(FALSE)
    /\ Var_bool(heap, getattr(heap, root, hist.kwargs[2].key).o)

----------------------------------------------------------------------------
(* The codec on graphs with cycles: a nested aggregate whose first field   *)
(* owns the root and whose second field borrows the Reference that holds   *)
(* the nested aggregate, References borrowing from each other, a child     *)
(* under two References.                                                   *)

CycleBindings == {"unbound", "alias", "PublicIp", "nested"}

(* field i .own(Aggregate(path)), the new aggregate pointing back *)
Nest(h, r, i) ==
    LET n == NewAggregate(h, ChildPath(i))
        h1 == Ref_own(n.h, Field(n.h, r, i), n.o)
        h2 == Ref_own(h1, Field(h1, n.o, 1), r)
    IN Ref_borrow(h2, Field(h2, n.o, 2), Field(h2, r, i))

RECURSIVE NestAll(_, _, _, _)
NestAll(h, r, bind, i) ==
    IF i > NRefs THEN h
    ELSE NestAll(IF bind[i] = "nested" THEN Nest(h, r, i) ELSE h, r, bind, i + 1)

BuildCycle(bind) ==
    LET g == BuildGraph([i \in 1..NRefs |-> IF bind[i] = "nested" THEN "unbound" ELSE bind[i]])
    IN [h |-> NestAll(g.h, g.o, bind, 1), o |-> g.o]

InitCycle ==
    \E bind \in [1..NRefs -> CycleBindings] :
        LET g == BuildCycle(bind)
        IN /\ heap = g.h
           /\ root = g.o
           /\ fs = [f \in FileNames |-> Absent]
           /\ pc = "build"
           /\ phases = <<>>
           /\ ops = <<>>
           /\ idx = 0
           /\ exc = "none"
           /\ verb = "cycle"
           /\ runs = 0
           /\ world = [n \in ChildNames |-> 0]
           /\ hist = NoCodec
           /\ sv = NoSave

NextCycle ==
    \/ \E i, j \in 1..NRefs : AliasRef(i, j)
    \/ \E i, j \in 1..NRefs : OwnShared(i, j)
    \/ CodecWrite
    \/ CodecRead

SpecCycle == InitCycle /\ [][NextCycle]_vars

(* The (class, id) tags of the objects a document gives the fields of, in  *)
(* document order; the other tagged objects are back-references.           *)
RECURSIVE BodyTags(_), BodyTagsOfItems(_), BodyTagsOfPairs(_)
BodyTags(json) ==
    IF json.t = "list" THEN BodyTagsOfItems(json.items)
    ELSE IF json.t = "dict"
    THEN (IF HasKey(json.kv, "__class__") /\ HasKey(json.kv, "__id__") /\ Len(json.kv) > 2
          THEN << [c |-> Get(json.kv, "__class__").s, i |-> Get(json.kv, "__id__").s] >>
          ELSE <<>>) \o BodyTagsOfPairs(json.kv)
    ELSE <<>>
BodyTagsOfItems(items) ==
    IF Len(items) = 0 THEN <<>> ELSE BodyTags(Head(items)) \o BodyTagsOfItems(Tail(items))
BodyTagsOfPairs(kv) ==
    IF Len(kv) = 0 THEN <<>> ELSE BodyTags(Head(kv).v) \o BodyTagsOfPairs(Tail(kv))

(* The objects the writer's table holds. *)
WriteTable == UNION {DOMAIN hist.wrefs[cn] : cn \in DOMAIN hist.wrefs}

(* C29: writing and reading return on every graph, also one with shared    *)
(* nodes and cycles: the document gives the fields of each object once,    *)
(* every other mention of the object being a back-reference, and the       *)
(* reader builds one object per (class, id) and a graph that is written    *)
(* as the same document, cycles included.                                  *)
C29_CodecTerminatesOnCycles ==
    /\ (verb = "cycle" /\ Written) =>
          /\ NoRepeat(BodyTags(hist.json))
          /\ Range(Tags(hist.json)) = Range(BodyTags(hist.json))
          /\ Len(BodyTags(hist.json)) = Cardinality(WriteTable)
    /\ (verb = "cycle" /\ pc = "read") =>
          /\ ~hist.err
          /\ Cardinality(ReadTable) = Len(BodyTags(hist.json))
          /\ WriteRoot(hist.rh, CopyRoot).json = hist.json

(* A graph read back in which a nested aggregate owns the root and two     *)
(* References borrow from each other.                                      *)
C29_Witness ==
    /\ verb = "cycle" /\ pc = "read"
    /\ ~hist.err
    /\ \E i \in 1..NRefs :
          /\ Owns(hist.rh, CopyRoot, i)
          /\ hist.rh[Child(hist.rh, CopyRoot, i)].cls = AggregateClass
          /\ Child(hist.rh, Child(hist.rh, CopyRoot, i), 1) = CopyRoot
    /\ \E i, j \in 1..NRefs :
          /\ i # j
          /\ Borrows(hist.rh, CopyRoot, i, j)
          /\ Borrows(hist.rh, CopyRoot, j, i)

----------------------------------------------------------------------------
(* aws_ec2.Cluster with its key pair, security group, public IP and        *)
(* instances, as Cluster.elaborate builds it; up and down are called on    *)
(* the cluster.  failAt numbers the external call a resource's up or down  *)
(* has rejected (0: none).                                                 *)


Instances(h, r) == [n \in 1..Len(getattr(h, r, "instances").items) |->
                        getattr(h, r, "instances").items[n].o]

(* Ref.resolve(phase, cls) of a Reference that is neither bound nor       *)
(* borrowing: cls(self.path())                                             *)
Resolve(h, r, key, kind) ==
    LET ref == VarOf(h, r, key)
        path == SomePath(Ref_path(h, ref))
        n == IF kind = "KeyPair" THEN NewKeyPair(h, path)
             ELSE IF kind = "Image" THEN NewImage(h, path)
             ELSE IF kind = "SecurityGroup" THEN NewSecurityGroup(h, path)
             ELSE NewPublicIp(h, path)
    IN Ref_own(n.h, ref, n.o)

(* Cluster(['cluster']) with its Vars configured *)
Cluster_configured(count) ==
    LET c == NewCluster(<<>>, SomePath(<<<<"cluster">>>>))
        h0 == SelectAll(c.h, c.o, <<"instance_type", "image", "root_user_name">>)
    IN [h |-> Var_select(h0, VarOf(h0, c.o, "count"), Str(IntStr(count))), o |-> c.o]

(* Cluster.elaborate: security_group().alias(description=f"{self.name}-sg") *)
Cluster_describe(h, r) ==
    Resource_alias(h, Ref_call(h, VarOf(h, r, "security_group")).o,
        << [key |-> "description",
            value |-> Str(getattr(h, r, "name").s \o <<"-sg">>)] >>).h

(* Cluster.elaborate, the body of the loop for instance i (counted from 0) *)
CreateInstance(h, r, i) ==
    LET n == NewInstance(h, SomePath(Resource_path(h, r)
                                \o << <<"instance#">> \o IntStr(i) >>))
        a == Resource_alias(n.h, n.o, <<
               [key |-> "instance_type", value |-> getattr(n.h, r, "instance_type")],
               [key |-> "image", value |-> getattr(n.h, r, "image")],
               [key |-> "root_user_name", value |-> getattr(n.h, r, "root_user_name")],
               [key |-> "key_pair", value |-> getattr(n.h, r, "key_pair")],
               [key |-> "security_group", value |-> getattr(n.h, r, "security_group")] >>)
        b == IF i = 0
             THEN Resource_alias(a.h, n.o,
                     << [key |-> "public_ip", value |-> getattr(a.h, r, "public_ip")] >>)
             ELSE a
    IN setattr(b.h, r, "instances",
               ListV(Append(getattr(b.h, r, "instances").items, Ptr(n.o))))

(* aws_ec2.KeyPair.up; its super().up(phase) invokes the up of the Image,  *)
(* which has nothing to bring up.                                          *)
KeyPair_up(h, r, failAt) ==
    LET image == Ref_call(h, VarOf(h, r, "private"))
    IN IF ~IsPtr(image) THEN [h |-> h, exc |-> "config"]
       ELSE IF Var_bool(h, VarOf(h, image.o, "contents")) THEN [h |-> h, exc |-> "none"]
       ELSE LET create(n) ==
                    IF n.err THEN [h |-> n.h, exc |-> "config"]
                    ELSE IF failAt = 1 THEN [h |-> n.h, exc |-> "external"]
                    ELSE [h |-> Var_select(n.h, VarOf(h, image.o, "contents"), Tok("key")),
                          exc |-> "none"]
            IN create(Var_call(h, VarOf(h, r, "ec2_name")))

(* aws_ec2.KeyPair.down *)
KeyPair_down(h, r, failAt) ==
    LET delete(n) ==
            IF n.err THEN [h |-> n.h, exc |-> "config"]
            ELSE IF failAt = 1 THEN [h |-> n.h, exc |-> "external"]
            ELSE IF Ref_bool(n.h, VarOf(h, r, "private")) = "true"
            THEN [h |-> Var_clear(n.h, VarOf(h, Ref_call(n.h, VarOf(h, r, "private")).o,
                                             "contents")),
                  exc |-> "none"]
            ELSE [h |-> n.h, exc |-> "none"]
    IN delete(Var_call(h, VarOf(h, r, "ec2_name")))

(* resource.Var read through a Reference: ref().var() *)
ReadThrough(h, r, ref, var) ==
    IF ~IsPtr(Ref_call(h, VarOf(h, r, ref))) THEN [h |-> h, err |-> TRUE]
    ELSE ReadVars(h, Ref_call(h, VarOf(h, r, ref)).o, <<var>>)

(* aws_ec2.Instance.up, after super().up(phase) found no owned child:      *)
(* ec2.create_instances is external call 1, elastic_ip.associate call 2.   *)
Instance_up(h, r, failAt) ==
    LET create(c) ==
            IF c.err THEN [h |-> c.h, exc |-> "config"]
            ELSE IF failAt = 1 THEN [h |-> c.h, exc |-> "external"]
            ELSE [h |-> Var_select(c.h, VarOf(h, r, "ec2_instance_id"), Tok("i-id")),
                  exc |-> "none"]
        group(b) ==
            IF b.err THEN [h |-> b.h, exc |-> "config"]
            ELSE create(ReadThrough(b.h, r, "security_group", "ec2_security_group_id"))
        key(a) ==
            IF a.err THEN [h |-> a.h, exc |-> "config"]
            ELSE group(ReadThrough(a.h, r, "key_pair", "ec2_name"))
        associate(d) ==
            [h |-> d.h, exc |-> IF d.err THEN "config"
                                ELSE IF failAt = 2 THEN "external" ELSE "none"]
        address(made) ==
            IF made.exc # "none" THEN made
            ELSE associate(ReadThrough(made.h, r, "public_ip", "ec2_allocation_id"))
    IN address(IF Var_bool(h, VarOf(h, r, "ec2_instance_id")) THEN [h |-> h, exc |-> "none"]
               ELSE IF ~IsPtr(Ref_call(h, VarOf(h, r, "security_group")))
                       \/ ~IsPtr(Ref_call(h, VarOf(h, r, "key_pair")))
               THEN [h |-> h, exc |-> "config"]
               ELSE key(ReadVars(h, r, <<"image", "instance_type">>)))

(* aws_ec2.Instance.down: instance.terminate() is external call 1. *)
Instance_down(h, r, failAt) ==
    IF ~Var_bool(h, VarOf(h, r, "ec2_instance_id")) THEN [h |-> h, exc |-> "none"]
    ELSE IF failAt = 1 THEN [h |-> h, exc |-> "external"]
    ELSE [h |-> Var_clear(h, VarOf(h, r, "ec2_instance_id")), exc |-> "none"]

(* operation.up(phase) / instance.up(phase) by the class of the resource *)
UpOne(h, c, failAt) ==
    IF h[c].cls = KeyPairClass THEN KeyPair_up(h, c, failAt)
    ELSE IF h[c].cls = InstanceClass THEN Instance_up(h, c, failAt)
    ELSE LET leaf(u) == [h |-> u.h, exc |-> u.exc] IN leaf(Leaf_up(h, c, failAt))

DownOne(h, c, failAt) ==
    IF h[c].cls = KeyPairClass THEN KeyPair_down(h, c, failAt)
    ELSE IF h[c].cls = InstanceClass THEN Instance_down(h, c, failAt)
    ELSE LET leaf(u) == [h |-> u.h, exc |-> u.exc] IN leaf(Leaf_down(h, c, failAt))

(* A loop "for x in seq: with <phase>: x.up(phase)" (x.down(phase) with    *)
(* dir = "down"): the heap afterwards, the resources invoked so far and    *)
(* the exception that ended the loop; the fail.idx-th invocation of the    *)
(* call has its external call fail.at rejected.                            *)
RECURSIVE Each(_, _, _, _, _)
Each(dir, h, seq, fail, done) ==
    IF Len(seq) = 0 THEN [h |-> h, seq |-> done, exc |-> "none"]
    ELSE LET failAt == IF Len(done) + 1 = fail.idx THEN fail.at ELSE 0
             next(u) ==
                 IF u.exc # "none"
                 THEN [h |-> u.h, seq |-> Append(done, Head(seq)), exc |-> u.exc]
                 ELSE Each(dir, u.h, Tail(seq), fail, Append(done, Head(seq)))
         IN next(IF dir = "up" THEN UpOne(h, Head(seq), failAt)
                 ELSE DownOne(h, Head(seq), failAt))

(* aws_ec2.Cluster.up: super().up(phase), then the instances *)
Cluster_up(h, r, fail) ==
    LET instances(a) == IF a.exc # "none" THEN a
                        ELSE Each("up", a.h, Instances(a.h, r), fail, a.seq)
    IN instances(Each("up", h, order_of_operations(h, r), fail, <<>>))

(* aws_ec2.Cluster.down: the instances, then super().down(phase) *)
Cluster_down(h, r, fail) ==
    LET children(a) ==
            IF a.exc # "none" THEN a
            ELSE Each("down", a.h, Backward(order_of_operations(a.h, r)), fail, a.seq)
    IN children(Each("down", h, Instances(h, r), fail, <<>>))

MaxInstances == 2   \* instances of the cluster
MaxCalls == 3       \* up / down calls made on the cluster

(* The state once Cluster.elaborate has created instances i .. count-1 on  *)
(* the heap h.                                                             *)
RECURSIVE Elaborated(_, _, _, _)
Elaborated(h, r, i, count) ==
    IF i = count THEN heap = h /\ root = r
    ELSE \E h2 \in {CreateInstance(h, r, i)} : Elaborated(h2, r, i + 1, count)

(* Cluster.elaborate on a configured cluster, step by step *)
InitCluster ==
    \E count \in 1..MaxInstances :
    \E c \in {Cluster_configured(count)} :
    \E h1 \in {Resolve(c.h, c.o, "key_pair", "KeyPair")} :
    \E h2 \in {Resolve(h1, c.o, "security_group", "SecurityGroup")} :
    \E h3 \in {Cluster_describe(h2, c.o)} :
    \E h4 \in {Resolve(h3, c.o, "public_ip", "PublicIp")} :
    \E h5 \in {Resolve(h4, Ref_call(h4, VarOf(h4, c.o, "key_pair")).o,
                       "private", "Image")} :
        /\ Elaborated(h5, c.o, 0, count)
        /\ fs = [f \in FileNames |-> Absent]
        /\ pc = "cluster"
        /\ phases = <<>>
        /\ ops = <<>>
        /\ idx = 0
        /\ exc = "none"
        /\ verb = "none"
        /\ runs = 0
        /\ world = [n \in ChildNames |-> 0]
        /\ hist = [up |-> <<>>, down |-> <<>>, upExc |-> "never", downExc |-> "never"]
        /\ sv = NoSave

ClusterCall(v, c) ==
    /\ pc = "cluster"
    /\ idx < MaxCalls
    /\ idx' = idx + 1
    /\ heap' = c.h
    /\ fs' = PersistInFile_save(fs, c.h, root)
    /\ exc' = c.exc
    /\ verb' = v
    /\ hist' = IF v = "up" THEN [hist EXCEPT !.up = c.seq, !.upExc = c.exc]
               ELSE [hist EXCEPT !.down = c.seq, !.downExc = c.exc]
    /\ UNCHANGED <<root, pc, phases, ops, runs, world, sv>>

(* with Phase(...) as phase: cluster.up(phase) *)
ClusterUp(fail) ==
    \E c \in {Cluster_up(heap, root, fail)} : ClusterCall("up", c)

(* with Phase(...) as phase: cluster.down(phase) *)
ClusterDown(fail) ==
    \E c \in {Cluster_down(heap, root, fail)} : ClusterCall("down", c)

(* The external call that is rejected during a call, if any. *)
Failures == [idx : 0..(3 + MaxInstances), at : 1..2]

NextCluster ==
    \/ \E fail \in Failures : ClusterUp(fail)
    \/ \E fail \in Failures : ClusterDown(fail)

SpecCluster == InitCluster /\ [][NextCluster]_vars

(* The owned children and the instances of the cluster. *)
Managed(h, r) == Len(order_of_operations(h, r)) + Len(Instances(h, r))

(* C30: for a cluster with owned children and two or more instances, the   *)
(* resources Cluster.down invokes down on, in order, are the resources     *)
(* Cluster.up invokes up on, in reverse order.                             *)
C30_DownMirrorsUp ==
    (/\ Len(order_of_operations(heap, root)) >= 1
     /\ Len(Instances(heap, root)) >= 2
     /\ Len(hist.up) = Managed(heap, root)
     /\ Len(hist.down) = Managed(heap, root))
        => hist.down = Rev(hist.up)

----------------------------------------------------------------------------
(* The resources an up or a down reaches below the ones the cluster        *)
(* invokes it on.                                                          *)

(* Whether the up / down of a class calls super().up(phase) /              *)
(* super().down(phase): every up does; of the downs only the inherited     *)
(* Resource.down (file.Image defines none) walks the owned children,       *)
(* KeyPair.down, SecurityGroup.down, PublicIp.down and Instance.down do    *)
(* not.                                                                    *)
Recurses(dir, cls) == dir = "up" \/ cls = ImageClass

(* The resources on which c.up(phase) / c.down(phase) invokes up / down,   *)
(* c included.                                                             *)
RECURSIVE Reached(_, _, _)
RECURSIVE ReachedAll(_, _, _)
Reached(dir, h, c) ==
    {c} \cup (IF Recurses(dir, h[c].cls)
              THEN ReachedAll(dir, h, order_of_operations(h, c))
              ELSE {})
ReachedAll(dir, h, seq) ==
    IF Len(seq) = 0 THEN {}
    ELSE Reached(dir, h, Head(seq)) \cup ReachedAll(dir, h, Tail(seq))

(* C31: after an up of the cluster that ran to completion, a down that     *)
(* runs to completion invokes down on every resource on which the up       *)
(* invoked up.                                                             *)
C31_TeardownComplete ==
    (verb = "down" /\ hist.upExc = "none" /\ hist.downExc = "none")
        => ReachedAll("up", heap, hist.up) \subseteq ReachedAll("down", heap, hist.down)

----------------------------------------------------------------------------
(* git.GithubDeployKey driven directly: up and down are called on it in    *)
(* any order, each call followed by the save of the phase it ran in, and   *)
(* the process can be started again from the state file.                   *)

RSAKeyClass == <<"cluster_control", "ssl_security", "RSAKey">>

(* ssl_security.RSAKey.__init__, its two References owning an Image each *)
NewRSAKey(h, path) ==
    LET nr == NewResource(h, RSAKeyClass, path)
        h1 == Var_select(AddVar(nr.h, nr.o, "bits", NoneV),
                         Len(nr.h) + 1, Tok("2048"))
        h2 == AddRef(h1, nr.o, "private")
        h3 == AddRef(h2, nr.o, "public")
        h4 == Resolve(h3, nr.o, "private", "Image")
    IN [h |-> Resolve(h4, nr.o, "public", "Image"), o |-> nr.o]

(* git.GithubDeployKey.__init__ *)
NewGithubDeployKey(h, path) ==
    LET nr == NewResource(h, GithubDeployKeyClass, path)
        h1 == AddVar(nr.h, nr.o, "owner", NoneV)
        h2 == AddVar(h1, nr.o, "repo", NoneV)
        h3 == AddVar(h2, nr.o, "repo_key_id", NoneV)
    IN [h |-> AddRef(h3, nr.o, "ssl_key"), o |-> nr.o]

(* GithubDeployKey(['key']), with owner and repo selected or not and       *)
(* ssl_key resolved to an RSAKey or left unbound.                          *)
WiredDeployKey(configured, keyed) ==
    LET n == NewGithubDeployKey(<<>>, SomePath(<<<<"key">>>>))
        h1 == IF configured THEN SelectAll(n.h, n.o, <<"owner", "repo">>) ELSE n.h
        k == NewRSAKey(h1, SomePath(Ref_path(h1, VarOf(h1, n.o, "ssl_key"))))
    IN [h |-> IF keyed THEN Ref_own(k.h, VarOf(k.h, n.o, "ssl_key"), k.o) ELSE h1,
        o |-> n.o]

(* bool(x) of an attribute value: a Var by Var.__bool__, any other value   *)
(* by Python's rules.                                                      *)
Truthy(h, x) ==
    IF IsVar(h, x) THEN Var_bool(h, x.o)
    ELSE IF IsNone(x) THEN FALSE
    ELSE IF x.t = "bool" THEN x.b
    ELSE TRUE

(* ssl_security.RSAKey.up; the key is generated in the process. *)
RSAKey_up(h, k) ==
    LET public == Ref_call(h, VarOf(h, k, "public"))
        private == Ref_call(h, VarOf(h, k, "private"))
    IN IF ~IsPtr(public) THEN [h |-> h, exc |-> "config"]
       ELSE IF Var_bool(h, VarOf(h, public.o, "contents")) THEN [h |-> h, exc |-> "none"]
       ELSE IF ~IsPtr(private) THEN [h |-> h, exc |-> "config"]
       ELSE [h |-> Var_select(Var_select(h, VarOf(h, private.o, "contents"), Tok("pem")),
                              VarOf(h, public.o, "contents"), Tok("base64")),
             exc |-> "none"]

(* The up of each owned child, in order (super().up(phase)). *)
RECURSIVE KeysUp(_, _)
KeysUp(h, seq) ==
    IF Len(seq) = 0 THEN [h |-> h, exc |-> "none"]
    ELSE LET u == RSAKey_up(h, Head(seq))
         IN IF u.exc # "none" THEN u ELSE KeysUp(u.h, Tail(seq))

(* git.GithubDeployKey.up, the assignment self.repo_key_id = asJSON['id'] *)
GithubDeployKey_register(h, r, id) == setattr(h, r, "repo_key_id", id)

(* git.GithubDeployKey.up: the heap afterwards, the key ids registered     *)
(* with GitHub and the exception raised.  The POST request, answering id,  *)
(* is external call 1.                                                     *)
GithubDeployKey_up(h, r, failAt, id) ==
    LET s == KeysUp(h, order_of_operations(h, r))
    IN IF s.exc # "none" THEN [h |-> s.h, posted |-> {}, exc |-> s.exc]
       ELSE IF Truthy(s.h, getattr(s.h, r, "repo_key_id"))
       THEN [h |-> s.h, posted |-> {}, exc |-> "none"]
       ELSE IF Ref_bool(s.h, VarOf(s.h, r, "ssl_key")) # "true"
       THEN [h |-> s.h, posted |-> {}, exc |-> "config"]
       ELSE LET a == ReadThrough(s.h, Ref_call(s.h, VarOf(s.h, r, "ssl_key")).o,
                                 "public", "contents")
                b == ReadVars(a.h, r, <<"owner", "repo">>)
            IN IF a.err THEN [h |-> a.h, posted |-> {}, exc |-> "config"]
               ELSE IF b.err THEN [h |-> b.h, posted |-> {}, exc |-> "config"]
               ELSE IF failAt = 1 THEN [h |-> b.h, posted |-> {}, exc |-> "external"]
               ELSE [h |-> GithubDeployKey_register(b.h, r, id),
                     posted |-> {id}, exc |-> "none"]

(* git.GithubDeployKey.down: the heap afterwards, the key ids              *)
(* un-registered and exception raised ("type": the TypeError of calling a  *)
(* value that is not callable).  The DELETE request is external call 1.    *)
GithubDeployKey_down(h, r, failAt) ==
    LET field == getattr(h, r, "repo_key_id")
    IN IF ~Truthy(h, field) THEN [h |-> h, deleted |-> {}, exc |-> "none"]
       ELSE LET a == ReadVars(h, r, <<"owner", "repo">>)
            IN IF a.err THEN [h |-> a.h, deleted |-> {}, exc |-> "config"]
               ELSE IF ~IsVar(a.h, field) THEN [h |-> a.h, deleted |-> {}, exc |-> "type"]
               ELSE IF failAt = 1 THEN [h |-> a.h, deleted |-> {}, exc |-> "external"]
               ELSE [h |-> Var_clear(a.h, field.o),
                     deleted |-> {Var_call(a.h, field.o).val}, exc |-> "none"]

InitDeployKey ==
    \E configured \in BOOLEAN : \E keyed \in BOOLEAN :
    \E n \in {WiredDeployKey(configured, keyed)} :
        /\ heap = n.h
        /\ root = n.o
        /\ fs = [f \in FileNames |-> Absent]
        /\ pc = "key"
        /\ phases = <<>>
        /\ ops = <<>>
        /\ idx = 0
        /\ exc = "none"
        /\ verb = "none"
        /\ runs = 0
        /\ world = {}
        /\ hist = [configured |-> configured, keyed |-> keyed, posts |-> 0]
        /\ sv = NoSave

(* One call with its phase: the call's effect on the resource and on       *)
(* GitHub, then the save the phase makes as it exits.                      *)
DeployKeyCall(v, h, keys, posts, e) ==
    /\ pc = "key"
    /\ idx < MaxCalls
    /\ idx' = idx + 1
    /\ heap' = h
    /\ fs' = PersistInFile_save(fs, h, root)
    /\ exc' = e
    /\ verb' = v
    /\ world' = keys
    /\ hist' = [hist EXCEPT !.posts = posts]
    /\ UNCHANGED <<root, pc, phases, ops, runs, sv>>

(* with Phase(...) as phase: key.up(phase) *)
DeployKeyUp(failAt) ==
    \E u \in {GithubDeployKey_up(heap, root, failAt, Str(IntStr(hist.posts + 1)))} :
        DeployKeyCall("up", u.h, world \cup u.posted, hist.posts + Cardinality(u.posted),
                      u.exc)

(* with Phase(...) as phase: key.down(phase) *)
DeployKeyDown(failAt) ==
    \E u \in {GithubDeployKey_down(heap, root, failAt)} :
        DeployKeyCall("down", u.h, world \ u.deleted, hist.posts, u.exc)

(* A new process: the graph is constructed again and the state file is     *)
(* loaded into it.                                                         *)
DeployKeyRestart ==
    /\ pc = "key"
    /\ runs < MaxRuns
    /\ runs' = runs + 1
    /\ \E n \in {WiredDeployKey(hist.configured, hist.keyed)} :
       \E l \in {PersistInFile_load(fs, n.h, n.o)} :
            /\ heap' = l.h
            /\ root' = n.o
            /\ exc' = IF l.err THEN "load" ELSE "none"
    /\ verb' = "load"
    /\ UNCHANGED <<fs, pc, phases, ops, idx, world, hist, sv>>

NextDeployKey ==
    \/ \E failAt \in 0..1 : DeployKeyUp(failAt)
    \/ \E failAt \in 0..1 : DeployKeyDown(failAt)
    \/ DeployKeyRestart

SpecDeployKey == InitDeployKey /\ [][NextDeployKey]_vars

(* The selected value of repo_key_id in the graph a new process loads from *)
(* the state file.                                                         *)
CheckpointedKeyId ==
    LET n == WiredDeployKey(hist.configured, hist.keyed)
        l == PersistInFile_load(fs, n.h, n.o)
    IN getattr(l.h, VarOf(l.h, n.o, "repo_key_id"), "_selected")

(* C32: while a deploy key is registered with GitHub, its id is the        *)
(* selected value of the Var repo_key_id and of that Var in the            *)
(* checkpoint; no second key is registered while one is; and a down that   *)
(* GitHub does not reject leaves no key registered and the Var cleared.    *)
C32_KeyIdKept ==
    /\ Cardinality(world) <= 1
    /\ world # {} =>
        /\ IsVar(heap, getattr(heap, root, "repo_key_id"))
        /\ getattr(heap, VarOf(heap, root, "repo_key_id"), "_selected") \in world
        /\ CheckpointedKeyId \in world
    /\ (verb = "down" /\ exc # "external") =>
        /\ world = {}
        /\ IsVar(heap, getattr(heap, root, "repo_key_id"))
        /\ ~Var_bool(heap, VarOf(heap, root, "repo_key_id"))

----------------------------------------------------------------------------
(* aws_ec2.Instance.wait_for_status, one poll at a time: idx is tries,     *)
(* runs the polls made so far.                                             *)

Tries == 10

(* The states EC2 reports for an instance. *)
Statuses == {"pending", "running", "shutting-down", "terminated"}

InitWait ==
    \E expected \in {"running", "terminated"} :
    \E n \in {NewInstance(<<>>, SomePath(<<<<"instance">>>>))} :
        /\ heap = Var_select(n.h, VarOf(n.h, n.o, "ec2_instance_id"), Tok("i-id"))
        /\ root = n.o
        /\ fs = [f \in FileNames |-> Absent]
        /\ pc = "while"
        /\ phases = <<>>
        /\ ops = <<>>
        /\ idx = 0
        /\ exc = "none"
        /\ verb = "wait"
        /\ runs = 0
        /\ world = "none"
        /\ hist = [expected |-> expected, seen |-> FALSE, after |-> FALSE]
        /\ sv = NoSave

(* while tries < 10: one pass of the body, the poll answering status *)
WaitPoll(status) ==
    /\ pc = "while"
    /\ idx < Tries
    /\ runs' = runs + 1
    /\ world' = status
    /\ hist' = [hist EXCEPT !.seen = @ \/ status = hist.expected, !.after = hist.seen]
    /\ IF status = hist.expected
       THEN pc' = "if" /\ idx' = idx
       ELSE pc' = "while" /\ idx' = idx + 1
    /\ UNCHANGED <<heap, root, fs, phases, ops, exc, verb, sv>>

(* the poll is rejected by EC2: the exception leaves wait_for_status *)
WaitPollRejected ==
    /\ pc = "while"
    /\ idx < Tries
    /\ runs' = runs + 1
    /\ pc' = "raised"
    /\ exc' = "external"
    /\ hist' = [hist EXCEPT !.after = hist.seen]
    /\ UNCHANGED <<heap, root, fs, phases, ops, idx, verb, world, sv>>

(* while tries < 10: the test fails *)
WaitLoopEnds ==
    /\ pc = "while"
    /\ ~(idx < Tries)
    /\ pc' = "if"
    /\ UNCHANGED <<heap, root, fs, phases, ops, idx, exc, verb, runs, world, hist, sv>>

Exhausted_at_last_try(tries) == tries >= Tries - 1

(* if tries == 10 *)
Exhausted(tries) == tries = Tries

(* if tries == 10: raise RuntimeError(...) *)
WaitCheck ==
    /\ pc = "if"
    /\ IF Exhausted(idx)
       THEN pc' = "raised" /\ exc' = "fatal"
       ELSE pc' = "returned" /\ exc' = exc
    /\ UNCHANGED <<heap, root, fs, phases, ops, idx, verb, runs, world, hist, sv>>

NextWait ==
    \/ \E status \in Statuses : WaitPoll(status)
    \/ WaitPollRejected
    \/ WaitLoopEnds
    \/ WaitCheck

SpecWait == InitWait /\ [][NextWait]_vars /\ WF_vars(NextWait)

WaitDone == pc \in {"returned", "raised"}

WaitBounded ==
    /\ runs <= Tries
    /\ ~hist.after
    /\ hist.seen => (pc \in {"if", "returned"} /\ world = hist.expected)
    /\ pc = "returned" => hist.seen
    /\ (WaitDone /\ exc # "external") => (pc = "raised" <=> ~hist.seen)
    /\ exc = "fatal" => (pc = "raised" /\ runs = Tries)

(* C33: wait_for_status makes at most 10 polls and then is over: it        *)
(* returns as soon as a poll observes the expected status, the 10th        *)
(* included (no poll is made after one that observed it), it raises the    *)
(* fatal error exactly when none of the polls observed it, which takes 10  *)
(* polls, and otherwise raises only what a poll raised.                    *)
C33_WaitTerminates == []WaitBounded /\ <>WaitDone

(* The 10th poll observed the expected status and the call returned. *)
C33_Witness == pc = "returned" /\ runs = Tries /\ hist.seen

----------------------------------------------------------------------------
(* A key pair whose Image holds text, bytes or a set: the process selects  *)
(* values, saves, loads the state file into the root it holds or into a    *)
(* newly constructed one, or reads the file as the command line does.      *)

(* KeyPair(['key']) elaborated *)
WrappedRoot ==
    LET k == NewKeyPair(<<>>, SomePath(<<<<"key">>>>))
    IN [h |-> Resolve(k.h, k.o, "private", "Image"), o |-> k.o]

WrappedValues == {Tok("text"), BytesV(<<"pem">>), SetV({Tok("a"), Tok("b")})}

InitWrapped ==
    \E n \in {WrappedRoot} :
        /\ heap = n.h
        /\ root = n.o
        /\ fs = [f \in FileNames |-> Absent]
        /\ pc = "wrapped"
        /\ phases = <<>>
        /\ ops = <<>>
        /\ idx = 0
        /\ exc = "none"
        /\ verb = "none"
        /\ runs = 0
        /\ world = [n2 \in ChildNames |-> 0]
        /\ hist = [saved |-> n.h, root |-> n.o]
        /\ sv = NoSave

WrappedStep(v) ==
    /\ pc = "wrapped"
    /\ idx < MaxOps
    /\ idx' = idx + 1
    /\ verb' = v
    /\ UNCHANGED <<pc, phases, ops, runs, world, sv>>

(* var.select(value) *)
WrappedSelect(v, value) ==
    /\ WrappedStep("select")
    /\ IsVar(heap, Ptr(v))
    /\ heap' = Var_select(heap, v, value)
    /\ exc' = "none"
    /\ UNCHANGED <<root, fs, hist>>

(* persistor.save() *)
WrappedSave ==
    /\ WrappedStep("save")
    /\ fs' = PersistInFile_save(fs, heap, root)
    /\ hist' = [saved |-> heap, root |-> root]
    /\ exc' = "none"
    /\ UNCHANGED <<heap, root>>

(* persistor.load(), the root being the one the process holds or a newly   *)
(* constructed one                                                         *)
WrappedLoad(fresh) ==
    /\ WrappedStep("load")
    /\ \E n \in {IF fresh THEN WrappedRoot ELSE [h |-> heap, o |-> root]} :
       \E l \in {PersistInFile_load(fs, n.h, n.o)} :
            /\ heap' = l.h
            /\ root' = n.o
            /\ exc' = IF l.err THEN "load" ELSE "none"
    /\ UNCHANGED <<fs, hist>>

(* Controller.__call__: json.load(fp, object_hook=formats.json_as_python_set) *)
(* and JSONReader.read()                                                   *)
WrappedRead ==
    /\ WrappedStep("read")
    /\ IsComplete(fs[FileName])
    /\ \E r \in {ReadRoot(json_load_hooked(fs[FileName].doc))} :
            /\ ~r.err
            /\ heap' = r.h
            /\ root' = r.val.o
    /\ exc' = "none"
    /\ UNCHANGED <<fs, hist>>

NextWrapped ==
    \/ \E v \in 1..Len(heap) : \E value \in WrappedValues : WrappedSelect(v, value)
    \/ WrappedSave
    \/ \E fresh \in BOOLEAN : WrappedLoad(fresh)
    \/ WrappedRead

SpecWrapped == InitWrapped /\ [][NextWrapped]_vars

(* Every Var of the graph has the selected value it had when saved. *)
Restored ==
    /\ exc = "none"
    /\ WriteRoot(heap, root).json = WriteRoot(hist.saved, hist.root).json

(* C34: once a checkpoint is written, loading it into a root of the same   *)
(* shape gives every Var the selected value that was saved, text, bytes    *)
(* or set, as reading the file the way the command line does gives it.     *)
C34_LoadRestoresWrapped ==
    (fs[FileName].exists /\ verb \in {"load", "read"}) => Restored

----------------------------------------------------------------------------
(* Cluster.elaborate run again on a cluster that has been elaborated, in   *)
(* the same run or after the checkpoint of the elaborated cluster has been *)
(* loaded into a newly configured one.                                     *)

Ref_resolve_cls_always(h, r, key, kind) == Resolve(h, r, key, kind)

(* Ref.resolve(phase, cls) on the field key of the resource r *)
Ref_resolve_cls(h, r, key, kind) ==
    IF ~IsNone(getattr(h, VarOf(h, r, key), "_owner")) THEN h
    ELSE IF IsNone(getattr(h, VarOf(h, r, key), "_resource")) THEN Resolve(h, r, key, kind)
    ELSE h

(* int(self.count()) *)
int(v) == CHOOSE n \in 0..9 : IntStr(n) = v.s

(* Cluster.elaborate: len(self.instances) > 0, the SKIP branch *)
Cluster_skips(h, r) == Len(Instances(h, r)) > 0

(* Resource.elaborate of the resource o flags a Reference field: the       *)
(* Phase of that field raises "Missing configuration items" at its exit.   *)
Resource_elaborate_missing(h, o) ==
    \E i \in 1..Len(Keys(h[o].d)) :
        /\ IsRef(h, getattr(h, o, Keys(h[o].d)[i]))
        /\ Ref_bool(h, getattr(h, o, Keys(h[o].d)[i]).o) # "true"

(* Cluster.elaborate, the loop that elaborates the new instances *)
Instances_elaborate(h, r) ==
    IF \E n \in 1..Len(Instances(h, r)) : Resource_elaborate_missing(h, Instances(h, r)[n])
    THEN "missing" ELSE "none"

MaxElabs == 6       \* steps of a behaviour that elaborates a cluster

InitElab ==
    \E count \in 1..MaxInstances :
    \E c \in {Cluster_configured(count)} :
        /\ heap = c.h
        /\ root = c.o
        /\ fs = [f \in FileNames |-> Absent]
        /\ pc = "elab"
        /\ phases = <<>>
        /\ ops = <<>>
        /\ idx = 0
        /\ exc = "none"
        /\ verb = "none"
        /\ runs = 0
        /\ world = count
        /\ hist = [elaborated |-> FALSE, again |-> FALSE, reloaded |-> FALSE]
        /\ sv = NoSave

(* The state once Cluster.elaborate has created instances i .. count-1 on  *)
(* the heap h, elaborated them and left its Phase.                         *)
RECURSIVE Created(_, _, _, _)
Created(h, r, i, count) ==
    IF i = count
    THEN /\ heap' = h
         /\ exc' = Instances_elaborate(h, r)
         /\ fs' = PersistInFile_save(fs, h, r)
    ELSE \E h2 \in {CreateInstance(h, r, i)} : Created(h2, r, i + 1, count)

(* with Phase(...) as phase: cluster.elaborate(phase) *)
ClusterElaborate ==
    /\ pc = "elab"
    /\ idx < MaxElabs
    /\ \E h1 \in {Ref_resolve_cls(heap, root, "key_pair", "KeyPair")} :
       \E h2 \in {Ref_resolve_cls(h1, root, "security_group", "SecurityGroup")} :
       \E h3 \in {Cluster_describe(h2, root)} :
       \E h4 \in {Ref_resolve_cls(h3, root, "public_ip", "PublicIp")} :
       \E h5 \in {Ref_resolve_cls(h4, Ref_call(h4, VarOf(h4, root, "key_pair")).o,
                                  "private", "Image")} :
          IF Cluster_skips(h5, root)
          THEN /\ heap' = h5
               /\ exc' = "none"
               /\ fs' = PersistInFile_save(fs, h5, root)
          ELSE Created(h5, root, 0, int(Var_call(h5, VarOf(h5, root, "count")).val))
    /\ idx' = idx + 1
    /\ verb' = "elaborate"
    /\ hist' = [hist EXCEPT !.elaborated = TRUE, !.again = hist.elaborated]
    /\ UNCHANGED <<root, pc, phases, ops, runs, world, sv>>

(* A new run: the cluster is configured again, with the count the program  *)
(* now asks for, and the checkpoint is loaded into it.                     *)
ClusterReload(count) ==
    /\ pc = "elab"
    /\ idx < MaxElabs
    /\ runs < MaxRuns
    /\ \E c \in {Cluster_configured(count)} :
       \E l \in {PersistInFile_load(fs, c.h, c.o)} :
          /\ ~l.err
          /\ heap' = l.h
          /\ root' = c.o
    /\ idx' = idx + 1
    /\ runs' = runs + 1
    /\ verb' = "load"
    /\ exc' = "none"
    /\ world' = count
    /\ hist' = [hist EXCEPT !.elaborated = fs[FileName].exists, !.again = FALSE,
                            !.reloaded = TRUE]
    /\ UNCHANGED <<fs, pc, phases, ops, sv>>

NextElab ==
    \/ ClusterElaborate
    \/ \E count \in 1..MaxInstances : ClusterReload(count)

SpecElab == InitElab /\ [][NextElab]_vars

(* The resources of a heap, and what every Reference of it is bound to. *)
Resources(h) == {o \in DOMAIN h : h[o].cls \notin {VarClass, RefClass}}
Targets(h) == {<<o, getattr(h, o, "_resource"), getattr(h, o, "_owner")>> :
                  o \in {x \in DOMAIN h : h[x].cls = RefClass}}

----------------------------------------------------------------------------
(* The checkpoints of a default Resource.up / Resource.down, checked       *)
(* under Spec.                                                             *)

(* The children, by position in the order of operations, that the graphs   *)
(* of two documents of the state file show differently.                    *)
PersistedApart(before, after) ==
    LET B == ReadRoot(before)
        A == ReadRoot(after)
        was == order_of_operations(B.h, B.val.o)
        now == order_of_operations(A.h, A.val.o)
    IN IF B.err \/ A.err \/ Len(was) # Len(now) THEN {0}
       ELSE {j \in 1..Len(now) :
                WriteObject(B.h, was[j], EmptyTable).json
                    # WriteObject(A.h, now[j], EmptyTable).json}

C36_State ==
    InProcess =>
        /\ verb = "up" =>
              \E i \in 0..Len(Declared) : hist.upSeq = SubSeq(Declared, 1, i)
        /\ verb = "down" =>
              \E i \in 0..Len(Declared) : hist.downSeq = SubSeq(Rev(Declared), 1, i)

C36_Step ==
    (InProcess /\ fs' # fs /\ IsComplete(fs[FileName])) =>
        /\ IsComplete(fs'[FileName])
        /\ \A j \in PersistedApart(fs[FileName].doc, fs'[FileName].doc) :
              /\ j >= 1
              /\ \E n \in 1..Len(Begun) :
                    NameOf(heap, order_of_operations(heap, root)[j]) = Begun[n]

(* C36: during a default up over the children c1..cn the children up has   *)
(* been invoked on are c1..ci for some i, and during a default down they   *)
(* are cn..ci; every checkpoint changes, of what the state file showed     *)
(* before it, only children among them, so no persisted state shows a      *)
(* later child (in that direction) processed and an earlier one not.       *)
C36_CheckpointsInOrder == []C36_State /\ [][C36_Step]_vars

(* The checkpoint of the second of three children of an up run is written, *)
(* the third not yet reached.                                              *)
C36_Witness ==
    /\ InProcess
    /\ verb = "up"
    /\ pc = "exit"
    /\ Len(phases) = 2
    /\ Top(phases).saved
    /\ Len(Declared) = NRefs
    /\ NRefs >= 3
    /\ Len(hist.upSeq) = 2
    /\ Len(hist.ckpt) = 2
    /\ world[ChildName(1)] > 0
    /\ world[ChildName(2)] > 0

----------------------------------------------------------------------------
(* Any sequence of borrow calls among the References of one holder, a      *)
(* Reference borrowing itself included, followed by calls and truth tests. *)

(* field.borrow(field) *)
RefBorrowSelf(i) ==
    RefOp("borrow", i, "none",
          Ref_borrow(heap, Field(heap, root, i), Field(heap, root, i)), 0)

NextRefAny ==
    \/ NextRef
    \/ \E i \in 1..NRefs : RefBorrowSelf(i)

SpecRefAny == InitRef /\ [][NextRefAny]_vars

(* C37: after any sequence of borrow calls, a Reference borrowing itself   *)
(* or two References borrowing each other included, calling a Reference    *)
(* ends with a resource or with "Resource reference is not connected", and *)
(* its truth test ends with a boolean.                                     *)
C37_DerefTerminates ==
    pc = "ref" =>
        \A i \in 1..NRefs :
            /\ Ref_call(heap, Field(heap, root, i)) # Recursion
            /\ Ref_bool(heap, Field(heap, root, i)) \in {"true", "false"}

----------------------------------------------------------------------------
(* resource.Phase driven through its own methods: a with block whose body  *)
(* may open sub-phases, flag missing configuration on the phase it is in   *)
(* (as file.Transfer.elaborate does on the phase it is handed), end, or    *)
(* raise the failure of an external operation.                             *)

MaxPhases == 3      \* phases entered in one behaviour

InitPhase ==
    LET g == BuildGraph([i \in 1..NRefs |-> "unbound"])
    IN /\ heap = g.h
       /\ root = g.o
       /\ fs = [f \in FileNames |-> Absent]
       /\ pc = "body"
       /\ phases = <<NewPhase("root", g.o, "done")>>
       /\ ops = <<>>
       /\ idx = 1
       /\ exc = "none"
       /\ verb = "phase"
       /\ runs = 1
       /\ world = [n \in ChildNames |-> 0]
       /\ hist = [NewHist(NoRun) EXCEPT !.entered = 1]
       /\ sv = NoSave

(* with phase.sub(...) as phase: *)
PhaseSub ==
    /\ pc = "body"
    /\ hist.entered < MaxPhases
    /\ Push("sub", root, "body")
    /\ UNCHANGED <<heap, root, fs, pc, ops, idx, exc, verb, runs, world, sv>>

(* phase.missing(item) *)
PhaseMissing ==
    /\ pc = "body"
    /\ ~Top(phases).has_error
    /\ phases' = SetTop(phases, Phase_missing(Top(phases)))
    /\ hist' = [hist EXCEPT !.missing = @ + 1]
    /\ UNCHANGED <<heap, root, fs, pc, ops, idx, exc, verb, runs, world, sv>>

(* An external operation called in the body raises. *)
PhaseFail ==
    /\ pc = "body"
    /\ exc' = "external"
    /\ pc' = "exit"
    /\ hist' = [hist EXCEPT !.failDepth = Len(phases)]
    /\ UNCHANGED <<heap, root, fs, phases, ops, idx, verb, runs, world, sv>>

(* The body of the with block ends. *)
PhaseEnd ==
    /\ pc = "body"
    /\ pc' = "exit"
    /\ UNCHANGED <<heap, root, fs, phases, ops, idx, exc, verb, runs, world, hist, sv>>

NextPhase ==
    \/ PhaseSub
    \/ PhaseMissing
    \/ PhaseFail
    \/ PhaseEnd
    \/ ExitSave
    \/ ExitLeave

SpecPhase == InitPhase /\ [][NextPhase]_vars

(* C38: the failure of an external operation raised inside a Phase is the  *)
(* failure in flight from then on, through the checkpoint and the exit of  *)
(* that Phase and of every Phase around it, until it has reached the       *)
(* caller: no exit replaces it, whether or not missing configuration was   *)
(* flagged on the Phase before.                                            *)
C38_FailureKept ==
    (verb = "phase" /\ hist.failDepth > 0) => exc = "external"

====
